---- MODULE Spec2Model ----
(***************************************************************************)
(* Verification model of the quantitative core of gv-sh/digital-twin:      *)
(* the discounted-cashflow functions of economics/roi.py (and their        *)
(* copies in models.py and models/equations.py) and the two Monte Carlo    *)
(* implementations (simulation/monte_carlo.py, models.py).                 *)
(*                                                                         *)
(* One call of one function is one behaviour: Init fixes the function and  *)
(* its arguments, the actions are the function's steps (a loop iteration,  *)
(* or the whole body of a straight-line function), and `out` records how   *)
(* the call ended: a returned value, or a raised exception.                *)
(*                                                                         *)
(* Python floats are modelled as fixed-point numbers held in integers:     *)
(*   money           in units of 1/MoneyScale dollars,                     *)
(*   rates, factors, years and sampled parameters                          *)
(*                   in units of 1/RateScale.                              *)
(* A product or a quotient is computed exactly and truncated toward zero   *)
(* to the unit.  A number whose magnitude passes Limit units, or a power   *)
(* of a non-zero base that truncates to zero, is beyond what the model     *)
(* represents: the call is then left unfinished (kind "beyond"), which is  *)
(* neither a return nor an exception.                                      *)
(***************************************************************************)
EXTENDS Integers, Sequences, FiniteSets, TLC

VARIABLES
  fn,    \* the function being called
  args,  \* its arguments (a record named after the Python parameters)
  pc,    \* position in the function: "call", a loop label, or "done"
  loc,   \* the function's local variables
  out,   \* how the call ended
  rng    \* numpy's process-wide random generator state (np.random)

vars == <<fn, args, pc, loc, out, rng>>

(***************************************************************************)
(* Fixed-point arithmetic                                                  *)
(***************************************************************************)
MoneyScale == 10^3
RateScale == 10^8
Limit == 10^9

Abs(x) == IF x < 0 THEN -x ELSE x
Sign(x) == IF x < 0 THEN -1 ELSE IF x > 0 THEN 1 ELSE 0

\* A number: st = "ok" with its value v, or st = "zero" (a division by zero,
\* Python's ZeroDivisionError), or st = "range" (beyond the model).
Ok(v) == [st |-> "ok", v |-> v]
DivZero == [st |-> "zero", v |-> 0]
Beyond == [st |-> "range", v |-> 0]
Chk(v) == IF Abs(v) > Limit THEN Beyond ELSE Ok(v)


\* <<q, r>> with a*b = q*c + r and 0 <= r < c, for 0 <= a, b <= Limit and
\* 0 < c <= Limit, by doubling on b so that no intermediate value passes
\* 2^31; q saturates at Limit + 1.
RECURSIVE MulDivRem(_, _, _)
MulDivRem(a, b, c) ==
  IF b = 0 THEN <<0, 0>>
  ELSE LET h == MulDivRem(a, b \div 2, c)
           odd == (b % 2 = 1)
           qa == IF odd THEN a \div c ELSE 0
           ra == IF odd THEN a % c ELSE 0
           r2 == 2 * h[2]
           r3 == (r2 % c) + ra
           carry == (r2 \div c) + (r3 \div c)
       IN IF h[1] > Limit \div 2
            THEN <<Limit + 1, 0>>
            ELSE <<2 * h[1] + qa + carry, r3 % c>>

\* x * y / z truncated toward zero; z = 0 is a division by zero.
MulDiv(x, y, z) ==
  IF z = 0 THEN DivZero
  ELSE LET q == MulDivRem(Abs(x), Abs(y), Abs(z))[1]
       IN IF q > Limit THEN Beyond ELSE Ok(Sign(x) * Sign(y) * Sign(z) * q)

Dollars(d) == d * MoneyScale
\* The decimal literal n/d as a rate, e.g. Ratio(8, 100) for 0.08.
Ratio(n, d) == MulDiv(n, RateScale, d).v

\* The first operand that is not "ok", else the value e.
Then(x, e) == IF x.st # "ok" THEN x ELSE e

\* float * float, both in rate units (or one in money units)
FMul(x, y) == Then(x, Then(y, MulDiv(x.v, y.v, RateScale)))
\* float / float: money / factor -> money, money / money -> rate
FDiv(x, y) == Then(x, Then(y, MulDiv(x.v, RateScale, y.v)))
FAdd(x, y) == Then(x, Then(y, Chk(x.v + y.v)))
FSub(x, y) == Then(x, Then(y, Chk(x.v - y.v)))

One == Ok(RateScale)

\* acc * square ** t, by squaring; each level first settles acc and square
RECURSIVE FPowBinary(_, _, _)
FPowBinary(acc, square, t) ==
  IF t = 0 \/ acc.st # "ok" THEN acc
  ELSE IF square.st # "ok" THEN square
  ELSE FPowBinary(IF t % 2 = 1 THEN FMul(acc, square) ELSE acc,
                  FMul(square, square), t \div 2)

\* base ** t for an integer t >= 0, by repeated multiplication up to t = 8
\* and by squaring beyond.  A non-zero base whose power truncates to zero
\* has left the model's precision.
RECURSIVE FPow(_, _)
FPow(base, t) ==
  IF t = 0 THEN Then(base, One)
  ELSE IF t = 1 THEN base
  ELSE LET p == IF t > 8 THEN FPowBinary(One, base, t)
                ELSE FMul(FPow(base, t - 1), base)
       IN IF p.st = "ok" /\ p.v = 0 /\ base.st = "ok" /\ base.v # 0
            THEN Beyond ELSE p

(***************************************************************************)
(* economics/roi.py: calculate_npv                                         *)
(***************************************************************************)
\* The loop with each cashflow compounded instead of discounted.
RECURSIVE NpvLoopCompounding(_, _, _, _)
NpvLoopCompounding(npv, annual_cashflows, discount_rate, t) ==
  IF t > Len(annual_cashflows) THEN npv
  ELSE NpvLoopCompounding(
         FAdd(npv, FMul(Ok(annual_cashflows[t]),
                        FPow(FAdd(One, Ok(discount_rate)), t))),
         annual_cashflows, discount_rate, t + 1)

\* npv after the loop `for t, cashflow in enumerate(annual_cashflows, start=1)`
\* has run from year t on, entered with the accumulator npv.
RECURSIVE NpvLoop(_, _, _, _)
NpvLoop(npv, annual_cashflows, discount_rate, t) ==
  IF t > Len(annual_cashflows) THEN npv
  ELSE NpvLoop(
         FAdd(npv, FDiv(Ok(annual_cashflows[t]),
                        FPow(FAdd(One, Ok(discount_rate)), t))),
         annual_cashflows, discount_rate, t + 1)

\* The function with the investment added instead of subtracted.
calculate_npv_sign_slip(initial_investment, annual_cashflows, discount_rate) ==
  NpvLoop(Ok(initial_investment), annual_cashflows, discount_rate, 1)

calculate_npv(initial_investment, annual_cashflows, discount_rate) ==
  NpvLoop(Ok(-initial_investment), annual_cashflows, discount_rate, 1)

(***************************************************************************)
(* How a call ends                                                         *)
(***************************************************************************)
NoOut == [kind |-> "none", value |-> 0, line |-> 0]
\* `return value` at the given source line
Return(value, line) == [kind |-> "return", value |-> value, line |-> line]
\* an exception of class value raised at the given source line
Raise(value, line) == [kind |-> "raise", value |-> value, line |-> line]
\* the arithmetic left the model's range at the given source line
OutOfModel(line) == [kind |-> "beyond", value |-> 0, line |-> line]

\* How a number x that is not "ok" ends the call at a source line: Python
\* raises ZeroDivisionError for a division by zero.
Failure(x, line) ==
  IF x.st = "zero" THEN Raise("ZeroDivisionError", line) ELSE OutOfModel(line)

\* All sequences over S of length 0..n.
SeqsUpTo(S, n) == UNION {[1..k -> S] : k \in 0..n}

(***************************************************************************)
(* Bounds of the explored inputs                                           *)
(***************************************************************************)
MaxLen == 2
MaxIter == 4

(***************************************************************************)
(* economics/roi.py: calculate_irr                                         *)
(***************************************************************************)
IrrSeed == Ratio(1, 10)
Tolerance == MoneyScale \div 100

\* The inner loop of one Newton-Raphson iteration, from year t on: the pair
\* npv, npv_derivative.  An operation that fails leaves its failure in both.
RECURSIVE IrrSums(_, _, _, _, _)
IrrSums(npv, npv_derivative, annual_cashflows, irr, t) ==
  IF t > Len(annual_cashflows)
    THEN [npv |-> Then(npv_derivative, npv), npv_derivative |-> npv_derivative]
  ELSE LET cf == annual_cashflows[t]
           base == FAdd(One, Ok(irr))
           npv1 == Then(npv_derivative,
                        FAdd(npv, FDiv(Ok(cf), FPow(base, t))))
           der1 == Then(npv1,
                        FSub(npv_derivative,
                             FDiv(Chk(t * cf), FPow(base, t + 1))))
       IN IrrSums(npv1, der1, annual_cashflows, irr, t + 1)

\* npv and npv_derivative at the estimate irr (lines 76-81).
IrrEvaluate(a, irr) ==
  IrrSums(Ok(-a.initial_investment), Ok(0), a.annual_cashflows, irr, 1)

\* The update without the `if npv_derivative != 0` guard.
IrrUpdateUnguarded(irr, s) == FSub(Ok(irr), FDiv(s.npv, s.npv_derivative))

\* The Newton-Raphson update of lines 87-88.
IrrUpdate(irr, s) ==
  IF s.npv_derivative.v # 0
    THEN FSub(Ok(irr), FDiv(s.npv, s.npv_derivative))
    ELSE Ok(irr)

\* How the call ends when the number x has failed at a source line.
Ended(x, line, l) ==
  [pc |-> IF x.st = "zero" THEN "done" ELSE "beyond",
   loc |-> l, out |-> Failure(x, line)]

\* One pass of `for _ in range(max_iterations)` (lines 75-88), or the
\* `return irr` after the loop (line 90).  l.it counts the passes that ran
\* to their end.
IrrStep(a, l) ==
  IF l.it >= a.max_iterations
    THEN [pc |-> "done", loc |-> l, out |-> Return(l.irr, 90)]
  ELSE LET s == IrrEvaluate(a, l.irr)
           next == IrrUpdate(l.irr, s)
       IN IF s.npv.st # "ok" THEN Ended(s.npv, 80, l)
          ELSE IF Abs(s.npv.v) < Tolerance
            THEN [pc |-> "done", loc |-> l, out |-> Return(l.irr, 84)]
          ELSE IF next.st # "ok" THEN Ended(next, 88, l)
          ELSE [pc |-> "loop",
                loc |-> [irr |-> next.v, it |-> l.it + 1],
                out |-> NoOut]

\* The whole call (lines 72-90): how it ends.
RECURSIVE IrrRun(_, _)
IrrRun(a, l) ==
  LET r == IrrStep(a, l)
  IN IF r.pc = "loop" THEN IrrRun(a, r.loc) ELSE r.out

calculate_irr(a) == IrrRun(a, [irr |-> IrrSeed, it |-> 0])

IrrInvestments == {Dollars(d) : d \in {0, 10, 220}}
IrrCashflows == {Dollars(d) : d \in {-11, 11, 20, 121}}
IrrArgs ==
  [initial_investment : IrrInvestments,
   annual_cashflows : SeqsUpTo(IrrCashflows, MaxLen),
   max_iterations : 0..MaxIter]

IrrInit ==
  /\ fn = "calculate_irr"
  /\ args \in IrrArgs
  /\ pc = "loop"
  /\ loc = [irr |-> IrrSeed, it |-> 0]
  /\ out = NoOut
  /\ rng = 0

IrrIterate ==
  /\ fn = "calculate_irr" /\ pc = "loop"
  /\ loc.it < args.max_iterations
  /\ LET r == IrrStep(args, loc)
     IN pc' = r.pc /\ loc' = r.loc /\ out' = r.out
  /\ UNCHANGED <<fn, args, rng>>

IrrExhausted ==
  /\ fn = "calculate_irr" /\ pc = "loop"
  /\ loc.it >= args.max_iterations
  /\ LET r == IrrStep(args, loc)
     IN pc' = r.pc /\ loc' = r.loc /\ out' = r.out
  /\ UNCHANGED <<fn, args, rng>>

IrrNext == IrrIterate \/ IrrExhausted
SpecIrr == IrrInit /\ [][IrrNext]_vars

(***************************************************************************)
(* models.py: calculate_npv (the copy kept beside economics/roi.py)        *)
(***************************************************************************)
RECURSIVE ModelsNpvLoop(_, _, _, _)
ModelsNpvLoop(npv, annual_cashflows, discount_rate, t) ==
  IF t > Len(annual_cashflows) THEN npv
  ELSE ModelsNpvLoop(
         FAdd(npv, FDiv(Ok(annual_cashflows[t]),
                        FPow(FAdd(One, Ok(discount_rate)), t))),
         annual_cashflows, discount_rate, t + 1)

models_calculate_npv(initial_investment, annual_cashflows, discount_rate) ==
  ModelsNpvLoop(Ok(-initial_investment), annual_cashflows, discount_rate, 1)

\* A caller evaluating calculate_npv for one investment and one cashflow
\* list at two discount rates, one call after the other.
NpvOutcome(x, retLine, divLine) ==
  IF x.st = "ok" THEN Return(x.v, retLine) ELSE Failure(x, divLine)

NpvCallOf(a, discount_rate) ==
  IF a.impl = "economics.roi"
    THEN NpvOutcome(calculate_npv(a.initial_investment, a.annual_cashflows,
                                  discount_rate), 47, 46)
    ELSE NpvOutcome(models_calculate_npv(a.initial_investment,
                                         a.annual_cashflows, discount_rate),
                    141, 140)

\* npv(150000, [30000] * 5) of the docstring (models.py line 135) and of
\* test_refactoring.py line 27, at the default discount rate.
DEFAULT_DISCOUNT_RATE == Ratio(8, 100)
DocInvestment == Dollars(150000)
DocCashflows == [t \in 1..5 |-> Dollars(30000)]

NpvInvestments == {Dollars(d) : d \in {0, 100}}
NpvCashflows == {Dollars(d) : d \in {-50, 30, 50}}
NpvRates ==
  {Ratio(-3, 2), Ratio(-1, 1), Ratio(-1, 2), 0, DEFAULT_DISCOUNT_RATE,
   Ratio(1, 2)}
NpvArgs ==
  [impl : {"economics.roi", "models"},
   initial_investment : NpvInvestments,
   annual_cashflows : SeqsUpTo(NpvCashflows, MaxLen),
   rates : NpvRates \X NpvRates]
  \cup
  [impl : {"economics.roi", "models"},
   initial_investment : {DocInvestment},
   annual_cashflows : {DocCashflows},
   rates : {<<DEFAULT_DISCOUNT_RATE, DEFAULT_DISCOUNT_RATE>>}]

NpvInit ==
  /\ fn = "calculate_npv"
  /\ args \in NpvArgs
  /\ pc = "call"
  /\ loc = << >>
  /\ out = NoOut
  /\ rng = 0

\* The next call: loc collects the outcomes of the calls made so far.
NpvCall ==
  /\ fn = "calculate_npv" /\ pc = "call"
  /\ LET k == Len(loc) + 1
         o == NpvCallOf(args, args.rates[k])
     IN /\ loc' = Append(loc, o)
        /\ out' = o
        /\ pc' = IF k = 2 THEN "done" ELSE "call"
  /\ UNCHANGED <<fn, args, rng>>

NpvNext == NpvCall
SpecNpv == NpvInit /\ [][NpvNext]_vars

(***************************************************************************)
(* economics/roi.py: calculate_payback_period                              *)
(***************************************************************************)
Infinity == "inf"

\* One pass of `for year, cashflow in enumerate(annual_cashflows, start=1)`
\* (lines 113-119), or the `return float('inf')` after the loop (line 121).
\* l.year is the number of passes already made.
PaybackStep(a, l) ==
  IF l.year >= Len(a.annual_cashflows)
    THEN [pc |-> "done", loc |-> l, out |-> Return(Infinity, 121)]
  ELSE LET year == l.year + 1
           cashflow == a.annual_cashflows[year]
           cumulative == l.cumulative + cashflow
           previous_cumulative == cumulative - cashflow
           fraction == FDiv(Chk(a.initial_investment - previous_cumulative),
                            Ok(cashflow))
           result == FAdd(Ok((year - 1) * RateScale), fraction)
       IN IF cumulative >= a.initial_investment
            THEN [pc |-> IF result.st = "range" THEN "beyond" ELSE "done",
                  loc |-> [cumulative |-> cumulative, year |-> year],
                  out |-> IF result.st = "ok" THEN Return(result.v, 119)
                          ELSE Failure(result, 118)]
            ELSE [pc |-> "loop",
                  loc |-> [cumulative |-> cumulative, year |-> year],
                  out |-> NoOut]

\* calculate_payback_period(500000, [100000, 120000, 120000, 130000, 140000])
PaybackDocInvestment == Dollars(500000)
PaybackDocCashflows ==
  <<Dollars(100000), Dollars(120000), Dollars(120000), Dollars(130000),
    Dollars(140000)>>

PaybackInvestments == {Dollars(d) : d \in {-100, 0, 100, 250}}
PaybackCashflows == {Dollars(d) : d \in {-50, 0, 100, 150, 200}}
PaybackArgs ==
  [initial_investment : PaybackInvestments,
   annual_cashflows : SeqsUpTo(PaybackCashflows, MaxLen + 1)]
  \cup
  [initial_investment : {PaybackDocInvestment},
   annual_cashflows : {PaybackDocCashflows}]

PaybackInit ==
  /\ fn = "calculate_payback_period"
  /\ args \in PaybackArgs
  /\ pc = "loop"
  /\ loc = [cumulative |-> 0, year |-> 0]
  /\ out = NoOut
  /\ rng = 0

PaybackYear ==
  /\ fn = "calculate_payback_period" /\ pc = "loop"
  /\ loc.year < Len(args.annual_cashflows)
  /\ LET r == PaybackStep(args, loc)
     IN pc' = r.pc /\ loc' = r.loc /\ out' = r.out
  /\ UNCHANGED <<fn, args, rng>>

PaybackNever ==
  /\ fn = "calculate_payback_period" /\ pc = "loop"
  /\ loc.year >= Len(args.annual_cashflows)
  /\ LET r == PaybackStep(args, loc)
     IN pc' = r.pc /\ loc' = r.loc /\ out' = r.out
  /\ UNCHANGED <<fn, args, rng>>

PaybackNext == PaybackYear \/ PaybackNever
SpecPayback == PaybackInit /\ [][PaybackNext]_vars

(***************************************************************************)
(* calculate_risk_adjusted_npv: economics/roi.py and models/equations.py   *)
(***************************************************************************)
Min(x, y) == IF x <= y THEN x ELSE y

\* The loop `for t, (cf, var) in enumerate(zip(annual_cashflows,
\* cashflow_variances), start=1)` from year t on; zip stops at the shorter
\* of the two lists.
RECURSIVE RiskLoop(_, _, _, _, _, _)
RiskLoop(npv_adj, annual_cashflows, cashflow_variances, discount_rate, risk_aversion, t) ==
  IF t > Min(Len(annual_cashflows), Len(cashflow_variances)) THEN npv_adj
  ELSE LET cf == Ok(annual_cashflows[t])
           var == Ok(cashflow_variances[t])
           adjusted_cf ==
             FMul(cf, FSub(One, FDiv(FPow(var, 2), Ok(2 * RateScale))))
           adjusted_discount ==
             FAdd(Ok(discount_rate), FMul(Ok(risk_aversion), var))
           pv == FDiv(adjusted_cf, FPow(FAdd(One, adjusted_discount), t))
       IN RiskLoop(FAdd(npv_adj, pv), annual_cashflows, cashflow_variances,
                   discount_rate, risk_aversion, t + 1)

\* economics/roi.py lines 201-217
calculate_risk_adjusted_npv(a) ==
  IF Len(a.annual_cashflows) # Len(a.cashflow_variances)
    THEN Raise("ValueError", 202)
    ELSE NpvOutcome(
           RiskLoop(Ok(-a.initial_investment), a.annual_cashflows,
                    a.cashflow_variances, a.discount_rate, a.risk_aversion, 1),
           217, 214)

\* models/equations.py lines 574-588: the same loop, entered directly
equations_calculate_risk_adjusted_npv(a) ==
  NpvOutcome(
    RiskLoop(Ok(-a.initial_investment), a.annual_cashflows,
             a.cashflow_variances, a.discount_rate, a.risk_aversion, 1),
    588, 585)

RiskInvestments == {Dollars(d) : d \in {0, 500}}
RiskCashflows == {Dollars(d) : d \in {100, 120}}
RiskVariances == {0, Ratio(3, 100), Ratio(5, 100)}
RiskArgs ==
  [impl : {"economics.roi", "models.equations"},
   initial_investment : RiskInvestments,
   annual_cashflows : SeqsUpTo(RiskCashflows, MaxLen),
   cashflow_variances : SeqsUpTo(RiskVariances, MaxLen),
   discount_rate : {DEFAULT_DISCOUNT_RATE},
   risk_aversion : {Ratio(1, 2)}]

RiskInit ==
  /\ fn = "calculate_risk_adjusted_npv"
  /\ args \in RiskArgs
  /\ pc = "call"
  /\ loc = << >>
  /\ out = NoOut
  /\ rng = 0

RiskCallRoi ==
  /\ fn = "calculate_risk_adjusted_npv" /\ pc = "call"
  /\ args.impl = "economics.roi"
  /\ out' = calculate_risk_adjusted_npv(args)
  /\ pc' = IF out'.kind = "beyond" THEN "beyond" ELSE "done"
  /\ UNCHANGED <<fn, args, loc, rng>>

RiskCallEquations ==
  /\ fn = "calculate_risk_adjusted_npv" /\ pc = "call"
  /\ args.impl = "models.equations"
  /\ out' = equations_calculate_risk_adjusted_npv(args)
  /\ pc' = IF out'.kind = "beyond" THEN "beyond" ELSE "done"
  /\ UNCHANGED <<fn, args, loc, rng>>

RiskNext == RiskCallRoi \/ RiskCallEquations
SpecRisk == RiskInit /\ [][RiskNext]_vars

(***************************************************************************)
(* numpy's global generator (np.random): a state, a deterministic          *)
(* successor, and variates that are functions of the state                 *)
(***************************************************************************)
RngPeriod == 8
RngStates == 0..(RngPeriod - 1)
RngAdvance(s) == (5 * s + 3) % RngPeriod
\* np.random.seed(seed)
RngSeed(seed) == seed % RngPeriod
\* the standard normal variate drawn in state s, one of -2, -1, 0, 1, 2
StdNormal(s) == (s % 5) - 2

\* np.random.normal(loc, scale) drawn in state s: numpy raises
\* ValueError("scale < 0") for a negative scale.
RandomNormal(location, scale, s) ==
  IF scale < 0 THEN [st |-> "raise", v |-> 0]
  ELSE Chk(location + scale * StdNormal(s))

\* np.random.uniform(low, high) drawn in state s: low + (high - low) * u
\* with u one of 0, 1/4, 1/2, 3/4.
RandomUniform(low, high, s) == Chk(low + ((high - low) * (s % 4)) \div 4)

(***************************************************************************)
(* simulation/monte_carlo.py: MonteCarloSimulator.run                      *)
(***************************************************************************)
MaxTrials == 2

\* np.random.normal(loc, scale, n): n variates drawn one after the other,
\* starting in state s.
RECURSIVE NormalArray(_, _, _, _)
NormalArray(location, scale, n, s) ==
  IF n = 0 THEN << >>
  ELSE <<RandomNormal(location, scale, s).v>>
       \o NormalArray(location, scale, n - 1, RngAdvance(s))

RECURSIVE RngAfter(_, _)
RngAfter(s, n) == IF n = 0 THEN s ELSE RngAfter(RngAdvance(s), n - 1)

\* lines 17-24: the dictionary that run() returns
MonteCarloSimulator_run(self, s) ==
  [npv_values |->
     NormalArray(Dollars(50000), Dollars(20000), self.n_iterations, s),
   mean |-> Dollars(50000),
   std |-> Dollars(20000),
   p05 |-> Dollars(30000),
   p95 |-> Dollars(70000)]

StubArgs == [scenario : {"scenario"}, n_iterations : 0..MaxTrials]

StubInit ==
  /\ fn = "MonteCarloSimulator.run"
  /\ args \in StubArgs
  /\ pc = "call"
  /\ loc = << >>
  /\ out = NoOut
  /\ rng \in RngStates

StubRun ==
  /\ fn = "MonteCarloSimulator.run" /\ pc = "call"
  /\ out' = Return(MonteCarloSimulator_run(args, rng), 24)
  /\ rng' = RngAfter(rng, args.n_iterations)
  /\ pc' = "done"
  /\ UNCHANGED <<fn, args, loc>>

(***************************************************************************)
(* models.py: monte_carlo_simulation                                       *)
(***************************************************************************)
MaxUncertain == 2

\* uncertainty.get(key, default)
Get(uncertainty, key, default) ==
  IF key \in DOMAIN uncertainty THEN uncertainty[key] ELSE default

\* default * base_value for the literal factor n/10 (0.1, 0.8, 1.2)
Tenths(n, base_value) == MulDiv(n, base_value, 10).v

\* The loop `for param_name, uncertainty in uncertainty_params.items()`
\* (lines 219-234) from item k on: the trial's parameter set, the generator
\* state, and whether a draw raised.
RECURSIVE ApplyUncertainty(_, _, _, _, _)
ApplyUncertainty(base_params, uncertainty_params, sim_params, s, k) ==
  IF k > Len(uncertainty_params)
    THEN [st |-> "ok", sim_params |-> sim_params, rng |-> s]
  ELSE LET param_name == uncertainty_params[k][1]
           uncertainty == uncertainty_params[k][2]
       IN IF param_name \notin DOMAIN base_params
            THEN ApplyUncertainty(base_params, uncertainty_params,
                                  sim_params, s, k + 1)
          ELSE LET base_value == base_params[param_name]
                   draw ==
                     IF uncertainty.type = "normal"
                       THEN RandomNormal(
                              base_value,
                              Get(uncertainty, "std", Tenths(1, base_value)),
                              s)
                       ELSE RandomUniform(
                              Get(uncertainty, "min", Tenths(8, base_value)),
                              Get(uncertainty, "max", Tenths(12, base_value)),
                              s)
               IN IF uncertainty.type \notin {"normal", "uniform"}
                    THEN ApplyUncertainty(base_params, uncertainty_params,
                                          sim_params, s, k + 1)
                  ELSE IF draw.st # "ok"
                    THEN [st |-> draw.st, sim_params |-> sim_params,
                          rng |-> s]
                  ELSE ApplyUncertainty(
                         base_params, uncertainty_params,
                         [sim_params EXCEPT ![param_name] = draw.v],
                         RngAdvance(s), k + 1)

BaseParams ==
  {[fuel_price |-> Ratio(3, 2), utilization |-> Ratio(85, 100)],
   [fuel_price |-> Ratio(3, 2), grade |-> Ratio(-2, 100)]}

UncertaintyItems ==
  {<<"fuel_price", [type |-> "normal", std |-> Ratio(3, 10)]>>,
   <<"fuel_price", [type |-> "uniform"]>>,
   <<"utilization",
     [type |-> "uniform", min |-> Ratio(7, 10), max |-> Ratio(95, 100)]>>,
   <<"utilization", [type |-> "triangular"]>>,
   <<"grade", [type |-> "normal"]>>,
   <<"discount_rate", [type |-> "normal", std |-> Ratio(1, 100)]>>,
   <<"fuel_price", [type |-> "normal", std |-> 0]>>,
   <<"utilization",
     [type |-> "uniform", min |-> Ratio(85, 100), max |-> Ratio(85, 100)]>>}

\* uncertainty_params is a dict: its keys are distinct.
UncertaintyParams ==
  {u \in SeqsUpTo(UncertaintyItems, MaxUncertain) :
     \A i, j \in 1..Len(u) : i # j => u[i][1] # u[j][1]}

\* random_seed: << >> for None, <<seed>> for a seed
SimArgs ==
  [base_params : BaseParams,
   uncertainty_params : UncertaintyParams,
   n_simulations : 0..MaxTrials,
   random_seed : {<< >>, <<0>>, <<42>>}]

SimInit ==
  /\ fn = "monte_carlo_simulation"
  /\ args \in SimArgs
  /\ pc = "seed"
  /\ loc = [results |-> << >>]
  /\ out = NoOut
  /\ rng \in RngStates

\* lines 210-213: `if random_seed is not None: np.random.seed(random_seed)`
\* and `results = []`
SimSeed ==
  /\ fn = "monte_carlo_simulation" /\ pc = "seed"
  /\ rng' = IF args.random_seed # << >>
              THEN RngSeed(args.random_seed[1]) ELSE rng
  /\ pc' = "loop"
  /\ UNCHANGED <<fn, args, loc, out>>

\* one pass of `for _ in range(n_simulations)` (lines 215-236)
SimTrial ==
  /\ fn = "monte_carlo_simulation" /\ pc = "loop"
  /\ Len(loc.results) < args.n_simulations
  /\ LET r == ApplyUncertainty(args.base_params, args.uncertainty_params,
                               args.base_params, rng, 1)
     IN /\ rng' = r.rng
        /\ IF r.st = "ok"
             THEN /\ loc' = [results |-> Append(loc.results, r.sim_params)]
                  /\ pc' = "loop"
                  /\ out' = NoOut
           ELSE IF r.st = "raise"
             THEN /\ pc' = "done"
                  /\ out' = Raise("ValueError", 226)
                  /\ loc' = loc
           ELSE /\ pc' = "beyond"
                /\ out' = OutOfModel(226)
                /\ loc' = loc
  /\ UNCHANGED <<fn, args>>

\* line 238: `return np.array(results)`
SimReturn ==
  /\ fn = "monte_carlo_simulation" /\ pc = "loop"
  /\ Len(loc.results) >= args.n_simulations
  /\ out' = Return(loc.results, 238)
  /\ pc' = "done"
  /\ UNCHANGED <<fn, args, loc, rng>>

McInit == StubInit \/ SimInit
McNext == StubRun \/ SimSeed \/ SimTrial \/ SimReturn
SpecMc == McInit /\ [][McNext]_vars

\* The trials of monte_carlo_simulation from generator state s on, as one
\* function: the outcome of the call.
RECURSIVE SimTrials(_, _, _)
SimTrials(a, results, s) ==
  IF Len(results) >= a.n_simulations THEN Return(results, 238)
  ELSE LET r == ApplyUncertainty(a.base_params, a.uncertainty_params,
                                 a.base_params, s, 1)
       IN IF r.st = "ok"
            THEN SimTrials(a, Append(results, r.sim_params), r.rng)
          ELSE IF r.st = "raise" THEN Raise("ValueError", 226)
          ELSE OutOfModel(226)

\* monte_carlo_simulation called when the generator is in state s
monte_carlo_simulation(a, s) ==
  SimTrials(a, << >>,
            IF a.random_seed # << >> THEN RngSeed(a.random_seed[1]) ELSE s)

(***************************************************************************)
(* monte_carlo_simulation running while another consumer of np.random      *)
(* runs: np.random.seed / normal / uniform act on numpy's one module-level *)
(* generator, which MonteCarloSimulator.run (line 18) draws from as well   *)
(***************************************************************************)
\* MonteCarloSimulator.run of another thread draws its n_iterations
\* variates between two steps of the call.
OtherConsumerDraws ==
  /\ fn = "monte_carlo_simulation" /\ pc \in {"seed", "loop"}
  /\ \E n \in 1..MaxTrials : rng' = RngAfter(rng, n)
  /\ UNCHANGED <<fn, args, pc, loc, out>>

SharedNext == SimSeed \/ SimTrial \/ SimReturn \/ OtherConsumerDraws
SpecMcShared == SimInit /\ [][SharedNext]_vars

(***************************************************************************)
(* np.exp and np.log on the fixed-point rates: the power series, summed    *)
(* until the terms vanish at the model's precision                         *)
(***************************************************************************)
\* x / k truncated toward zero
Over(x, k) == Sign(x) * (Abs(x) \div k)

\* The terms x^k / k! of e^x from term k on, given the term before.
RECURSIVE ExpTerms(_, _, _)
ExpTerms(x, term, k) ==
  LET next == Over(MulDiv(term, x, RateScale).v, k)
  IN IF next = 0 THEN 0 ELSE next + ExpTerms(x, next, k + 1)

\* np.exp(x) for |x| <= 2
Exp(x) ==
  IF Abs(x) > 2 * RateScale THEN Beyond
  ELSE Ok(RateScale + ExpTerms(x, RateScale, 1))

\* The terms z^k / k (k odd) of atanh(z) from term k on, given z^k.
RECURSIVE LnTerms(_, _, _)
LnTerms(zz, power, k) ==
  IF power = 0 THEN 0
  ELSE Over(power, k) + LnTerms(zz, MulDiv(power, zz, RateScale).v, k + 2)

\* np.log(x) for 1/4 <= x <= 4: 2 atanh((x - 1) / (x + 1))
Ln(x) ==
  IF x < RateScale \div 4 \/ x > 4 * RateScale THEN Beyond
  ELSE LET z == MulDiv(x - RateScale, RateScale, x + RateScale).v
           zz == MulDiv(z, z, RateScale).v
       IN Ok(2 * LnTerms(zz, z, 1))

(***************************************************************************)
(* physics/degradation.py and models/equations.py: battery degradation     *)
(***************************************************************************)
BATTERY_DEGRADATION_RATE == Ratio(106, 1000)

\* a capacity, performance or range, held in thousandths like money
Capacity(c) == c * MoneyScale

\* lines 51-52
calculate_battery_degradation(a) ==
  FMul(Ok(a.initial_capacity),
       Then(FMul(Ok(-a.degradation_rate), Ok(a.years)),
            Exp(FMul(Ok(-a.degradation_rate), Ok(a.years)).v)))

\* lines 78-79
calculate_cycle_degradation(a) ==
  FMul(Ok(a.initial_capacity),
       FPow(FSub(One, Ok(a.degradation_per_cycle)), a.cycles))

\* lines 113-121
calculate_combined_degradation(a) ==
  LET x == FMul(Ok(-a.degradation_rate), Ok(a.years))
      calendar_factor == Then(x, Exp(x.v))
      cycle_factor == FPow(FSub(One, Ok(a.degradation_per_cycle)), a.cycles)
  IN FMul(FMul(Ok(a.initial_capacity), calendar_factor), cycle_factor)

\* models/equations.py lines 276-284
calculate_battery_performance_degradation(a) ==
  LET x == FMul(Ok(-a.degradation_rate), Ok(a.years))
      time_factor == Then(x, Exp(x.v))
      cycle_factor == FPow(FSub(One, Ok(a.degradation_per_cycle)), a.cycles)
  IN FMul(FMul(Ok(a.initial_capacity), time_factor), cycle_factor)

DegradationFunctions ==
  {"calculate_battery_degradation", "calculate_cycle_degradation",
   "calculate_combined_degradation",
   "calculate_battery_performance_degradation"}

DegradationCapacities == {Capacity(0), Capacity(300)}
DegradationYears == {Ratio(-1, 1), 0, Ratio(3, 2), Ratio(2, 1)}
DegradationRates == {Ratio(-1, 10), 0, BATTERY_DEGRADATION_RATE, Ratio(1, 2)}
DegradationCycles == 0..3
DegradationPerCycle == {0, Ratio(1, 10000), Ratio(1, 2), Ratio(2, 1)}

\* A function that takes no years (or no cycles) is given the neutral 0.
DegradationArgs ==
  [initial_capacity : DegradationCapacities,
   years : DegradationYears,
   degradation_rate : DegradationRates,
   cycles : DegradationCycles,
   degradation_per_cycle : DegradationPerCycle]

DegradationInit ==
  /\ fn \in DegradationFunctions
  /\ args \in DegradationArgs
  /\ fn = "calculate_battery_degradation" =>
       args.cycles = 0 /\ args.degradation_per_cycle = 0
  /\ fn = "calculate_cycle_degradation" =>
       args.years = 0 /\ args.degradation_rate = 0
  /\ pc = "call"
  /\ loc = << >>
  /\ out = NoOut
  /\ rng = 0

\* A call that is one expression and a return at the given line.
CallOf(f, x, line) ==
  /\ fn = f /\ pc = "call"
  /\ out' = NpvOutcome(x, line, line)
  /\ pc' = IF out'.kind = "beyond" THEN "beyond" ELSE "done"
  /\ UNCHANGED <<fn, args, loc, rng>>

BatteryDegradationCall ==
  CallOf("calculate_battery_degradation",
         calculate_battery_degradation(args), 52)
CycleDegradationCall ==
  CallOf("calculate_cycle_degradation", calculate_cycle_degradation(args), 79)
CombinedDegradationCall ==
  CallOf("calculate_combined_degradation",
         calculate_combined_degradation(args), 121)
PerformanceDegradationCall ==
  CallOf("calculate_battery_performance_degradation",
         calculate_battery_performance_degradation(args), 284)

DegradationNext ==
  \/ BatteryDegradationCall
  \/ CycleDegradationCall
  \/ CombinedDegradationCall
  \/ PerformanceDegradationCall
SpecDegradation == DegradationInit /\ [][DegradationNext]_vars

(***************************************************************************)
(* calculate_operational_range: physics/degradation.py and the copy in     *)
(* models/equations.py                                                     *)
(***************************************************************************)
\* lines 210-216 (models/equations.py 363-369): the product, left to right
EffectiveRange(a) ==
  FMul(FMul(FMul(FMul(Ok(a.rated_range), Ok(a.battery_performance_factor)),
                 Ok(a.temperature_factor)),
            Ok(a.load_factor)),
       Ok(a.gradient_factor))

\* max(0.0, effective_range), line 217
Max(x, y) == IF y > x THEN y ELSE x

calculate_operational_range(a) ==
  LET effective_range == EffectiveRange(a)
  IN Then(effective_range, Ok(Max(0, effective_range.v)))

\* models/equations.py line 370: `return effective_range`
equations_calculate_operational_range(a) == EffectiveRange(a)

RangeFactors == {Ratio(-1, 2), 0, Ratio(85, 100), RateScale}
RangeArgs ==
  [impl : {"physics.degradation", "models.equations"},
   rated_range : {Capacity(0), Capacity(300)},
   battery_performance_factor : RangeFactors,
   temperature_factor : RangeFactors,
   load_factor : {Ratio(9, 10), RateScale},
   gradient_factor : {Ratio(-1, 2), RateScale}]

RangeInit ==
  /\ fn = "calculate_operational_range"
  /\ args \in RangeArgs
  /\ pc = "call"
  /\ loc = << >>
  /\ out = NoOut
  /\ rng = 0

RangeCallPhysics ==
  /\ args.impl = "physics.degradation"
  /\ CallOf("calculate_operational_range",
            calculate_operational_range(args), 217)

RangeCallEquations ==
  /\ args.impl = "models.equations"
  /\ CallOf("calculate_operational_range",
            equations_calculate_operational_range(args), 370)

RangeNext == RangeCallPhysics \/ RangeCallEquations
SpecRange == RangeInit /\ [][RangeNext]_vars

(***************************************************************************)
(* physics/degradation.py: estimate_remaining_life, estimate_end_of_life   *)
(***************************************************************************)
\* lines 146-158
estimate_remaining_life(a) ==
  LET current_soh == MulDiv(a.current_capacity, RateScale, a.initial_capacity)
  IN IF current_soh.st # "ok" THEN Failure(current_soh, 146)
     ELSE IF current_soh.v <= a.eol_threshold THEN Return(0, 149)
     ELSE LET remaining_degradation == current_soh.v - a.eol_threshold
              years_remaining ==
                MulDiv(remaining_degradation, RateScale,
                       BATTERY_DEGRADATION_RATE)
          IN NpvOutcome(years_remaining, 158, 156)

\* lines 292-304
estimate_end_of_life(a) ==
  LET current_soh == MulDiv(a.current_capacity, RateScale, a.initial_capacity)
  IN IF current_soh.st # "ok" THEN Failure(current_soh, 292)
     ELSE IF current_soh.v <= a.eol_threshold THEN Return(0, 295)
     ELSE IF a.degradation_rate <= 0 THEN Return(Infinity, 300)
     ELSE LET ratio == MulDiv(a.eol_threshold, RateScale, current_soh.v)
              time_to_eol ==
                FDiv(FSub(Ok(0), Then(ratio, Ln(ratio.v))),
                     Ok(a.degradation_rate))
          IN IF time_to_eol.st # "ok" THEN Failure(time_to_eol, 302)
             ELSE Return(Max(0, time_to_eol.v), 304)

\* estimate_remaining_life has no degradation_rate parameter: its rate is
\* the module constant.
LifeArgs ==
  [current_capacity : {Capacity(0), Capacity(200), Capacity(270),
                       Capacity(300)},
   initial_capacity : {Capacity(0), Capacity(300)},
   degradation_rate : DegradationRates,
   eol_threshold : {Ratio(1, 2), Ratio(8, 10)}]

LifeInit ==
  /\ fn \in {"estimate_remaining_life", "estimate_end_of_life"}
  /\ args \in LifeArgs
  /\ fn = "estimate_remaining_life" =>
       args.degradation_rate = BATTERY_DEGRADATION_RATE
  /\ pc = "call"
  /\ loc = << >>
  /\ out = NoOut
  /\ rng = 0

RemainingLifeCall ==
  /\ fn = "estimate_remaining_life" /\ pc = "call"
  /\ out' = estimate_remaining_life(args)
  /\ pc' = IF out'.kind = "beyond" THEN "beyond" ELSE "done"
  /\ UNCHANGED <<fn, args, loc, rng>>

EndOfLifeCall ==
  /\ fn = "estimate_end_of_life" /\ pc = "call"
  /\ out' = estimate_end_of_life(args)
  /\ pc' = IF out'.kind = "beyond" THEN "beyond" ELSE "done"
  /\ UNCHANGED <<fn, args, loc, rng>>

LifeNext == RemainingLifeCall \/ EndOfLifeCall
SpecLife == LifeInit /\ [][LifeNext]_vars

(***************************************************************************)
(* physics/energy.py: calculate_technology_specific_energy                 *)
(* Joules are whole numbers; kWh, kg of H2 and liters are in thousandths.  *)
(***************************************************************************)
\* an amount of energy, hydrogen or fuel, in thousandths
Amount(n, d) == MulDiv(n, MoneyScale, d).v

DIESEL_TANK_TO_WHEEL == Ratio(35, 100)
KG_H2_TO_KWH == Amount(333, 10)
\* the literal 3_600_000 (Joules per kWh) of lines 246, 252, 259
JoulesPerKwh == 3600 * MoneyScale
\* the literal 10.0 (kWh per liter of diesel) of line 260
KwhPerLiter == Amount(10, 1)

TechnologyTags ==
  {"bev", "BEV", "fcet", "Fcet", "hydrogen", "diesel", "Diesel", "hybrid",
   "lng", ""}

\* technology.lower() on the tags above
LowerAsIs(technology) == technology

Lower(technology) ==
  CASE technology = "BEV" -> "bev"
    [] technology = "Fcet" -> "fcet"
    [] technology = "Diesel" -> "diesel"
    [] OTHER -> technology

\* x / y for an amount x in thousandths and an amount y in thousandths
AmountDiv(x, y) == Then(x, MulDiv(x.v, MoneyScale, y))

\* energy_j / 3_600_000: Joules to thousandths of a kWh
ToKwh(energy_j) == Then(energy_j, MulDiv(energy_j.v, MoneyScale, JoulesPerKwh))

\* wheel_energy_joules / efficiency, in Joules
JoulesOver(wheel_energy_joules, efficiency) ==
  Then(efficiency, MulDiv(wheel_energy_joules, RateScale, efficiency.v))

\* A returned (amount, unit) pair, or how the arithmetic failed.
PairOutcome(x, unit, retLine, divLine) ==
  IF x.st = "ok" THEN Return(<<x.v, unit>>, retLine) ELSE Failure(x, divLine)

\* line 258: wheel_energy_joules / DIESEL_TANK_TO_WHEEL
DieselEnergy(a) == JoulesOver(a.wheel_energy_joules, Ok(DIESEL_TANK_TO_WHEEL))

\* lines 241-264
calculate_technology_specific_energy(a) ==
  LET tech == Lower(a.technology)
  IN IF tech = "bev"
       THEN LET battery_energy_j ==
                  JoulesOver(a.wheel_energy_joules,
                             FMul(Ok(a.drivetrain_efficiency),
                                  Ok(a.battery_efficiency)))
            IN PairOutcome(ToKwh(battery_energy_j), "kWh", 247, 245)
     ELSE IF tech = "fcet" \/ tech = "hydrogen"
       THEN LET h2_energy_j ==
                  JoulesOver(a.wheel_energy_joules,
                             FMul(Ok(a.drivetrain_efficiency),
                                  Ok(a.fuelcell_efficiency)))
                h2_kg == AmountDiv(ToKwh(h2_energy_j), KG_H2_TO_KWH)
            IN PairOutcome(h2_kg, "kg_h2", 254, 251)
     ELSE IF tech = "diesel"
       THEN LET diesel_liters ==
                  AmountDiv(ToKwh(DieselEnergy(a)), KwhPerLiter)
            IN PairOutcome(diesel_liters, "liters", 261, 258)
     ELSE Raise("ValueError", 264)

\* A caller evaluating the function at two drivetrain efficiencies, every
\* other argument the same.
TechArgs ==
  [wheel_energy_joules : {0, 3600000, 100000000},
   technology : TechnologyTags,
   drivetrains : {0, Ratio(45, 100), Ratio(9, 10)}
                 \X {Ratio(9, 10), RateScale},
   battery_efficiency : {Ratio(94, 100)},
   fuelcell_efficiency : {Ratio(1, 2), Ratio(6, 10)}]

TechInit ==
  /\ fn = "calculate_technology_specific_energy"
  /\ args \in TechArgs
  /\ pc = "call"
  /\ loc = << >>
  /\ out = NoOut
  /\ rng = 0

TechCallArgs(a, k) ==
  [wheel_energy_joules |-> a.wheel_energy_joules,
   technology |-> a.technology,
   drivetrain_efficiency |-> a.drivetrains[k],
   battery_efficiency |-> a.battery_efficiency,
   fuelcell_efficiency |-> a.fuelcell_efficiency]

\* The next call: loc collects the outcomes of the calls made so far.
TechCall ==
  /\ fn = "calculate_technology_specific_energy" /\ pc = "call"
  /\ LET k == Len(loc) + 1
         o == calculate_technology_specific_energy(TechCallArgs(args, k))
     IN /\ loc' = Append(loc, o)
        /\ out' = o
        /\ pc' = IF k = 2 THEN "done" ELSE "call"
  /\ UNCHANGED <<fn, args, rng>>

TechNext == TechCall
SpecTech == TechInit /\ [][TechNext]_vars

(***************************************************************************)
(* physics/energy.py: calculate_wheel_energy, and models.py:               *)
(* calculate_energy_consumption.  Masses (kg), distances (m) and energies  *)
(* (J) are whole numbers; velocities and forces are in units of 1e-5.  The *)
(* products are taken force first, then times the distance, so that every  *)
(* intermediate value stays within the model's range.                      *)
(***************************************************************************)
FineScale == 10^5
Fine(n, d) == MulDiv(n, FineScale, d).v

GRAVITY_ACCELERATION == Ratio(981, 100)
AIR_DENSITY_SEA_LEVEL == Ratio(1225, 1000)
ROLLING_RESISTANCE_COEFF == Ratio(6, 1000)
DEFAULT_DRAG_COEFFICIENT == Ratio(1, 1)
DEFAULT_FRONTAL_AREA == Ratio(8, 1)

\* The terms of sin(x) after x, from the term of degree k + 2 on, given the
\* term of degree k.
RECURSIVE SinTerms(_, _, _)
SinTerms(xx, term, k) ==
  LET next == -Over(MulDiv(term, xx, RateScale).v, (k + 1) * (k + 2))
  IN IF next = 0 THEN 0 ELSE next + SinTerms(xx, next, k + 2)

\* np.sin(x) for |x| <= 2
Sin(x) ==
  IF Abs(x) > 2 * RateScale THEN Beyond
  ELSE Ok(x + SinTerms(MulDiv(x, x, RateScale).v, x, 1))

\* a force (1e-5 N) over a distance (m): Joules
Work(force, distance) == Then(force, MulDiv(force.v, distance, FineScale))

\* a coefficient (1e-8) times a mass (kg): 1e-5 units
PerMass(coefficient, mass) ==
  Then(coefficient, MulDiv(coefficient.v, mass, RateScale \div FineScale))

\* mass * GRAVITY_ACCELERATION * np.sin(grade) * distance
EGravity(mass, grade, distance) ==
  Work(PerMass(FMul(Ok(GRAVITY_ACCELERATION), Sin(grade)), mass), distance)

\* rolling_resistance * mass * GRAVITY_ACCELERATION * distance
ERolling(rolling_resistance, mass, distance) ==
  Work(PerMass(FMul(Ok(rolling_resistance), Ok(GRAVITY_ACCELERATION)), mass),
       distance)

\* the drag energy without the factor 0.5
EAeroWhole(drag_coefficient, air_density, frontal_area, velocity, distance) ==
  LET coefficient ==
        FMul(FMul(Ok(drag_coefficient), Ok(air_density)), Ok(frontal_area))
      squared == MulDiv(velocity, velocity, FineScale)
  IN Work(Then(coefficient,
               Then(squared, MulDiv(coefficient.v, squared.v, RateScale))),
          distance)

\* 0.5 * drag_coefficient * air_density * frontal_area * velocity ** 2
\* * distance
EAero(drag_coefficient, air_density, frontal_area, velocity, distance) ==
  LET coefficient ==
        FMul(FMul(FMul(Ok(RateScale \div 2), Ok(drag_coefficient)),
                  Ok(air_density)),
             Ok(frontal_area))
      squared == MulDiv(velocity, velocity, FineScale)
  IN Work(Then(coefficient,
               Then(squared, MulDiv(coefficient.v, squared.v, RateScale))),
          distance)

\* an optional argument: << >> when the caller leaves it out
Arg(given, default) == IF given = << >> THEN default ELSE given[1]

\* physics/energy.py lines 74-88
calculate_wheel_energy(a) ==
  LET air_density == Arg(a.air_density, AIR_DENSITY_SEA_LEVEL)
      E_gravity == EGravity(a.mass, a.grade, a.distance)
      E_rolling == ERolling(ROLLING_RESISTANCE_COEFF, a.mass, a.distance)
      E_aero == EAero(DEFAULT_DRAG_COEFFICIENT, air_density,
                      DEFAULT_FRONTAL_AREA, a.velocity, a.distance)
  IN FAdd(FAdd(E_gravity, E_rolling), E_aero)

\* models.py lines 64-77: the defaults are air_density = 1.2 and
\* frontal_area = 8.0
calculate_energy_consumption(a) ==
  LET air_density == Arg(a.air_density, Ratio(12, 10))
      E_gravity == EGravity(a.mass, a.grade, a.distance)
      E_rolling == ERolling(ROLLING_RESISTANCE_COEFF, a.mass, a.distance)
      E_aero == EAero(DEFAULT_DRAG_COEFFICIENT, air_density, Ratio(8, 1),
                      a.velocity, a.distance)
  IN FAdd(FAdd(E_gravity, E_rolling), E_aero)

WheelArgs ==
  [impl : {"physics.energy", "models"},
   mass : {12000, 18000},
   grade : {Ratio(-2, 100), 0, Ratio(2, 100)},
   distance : {0, 1000, 100000},
   velocity : {0, Fine(222, 10)},
   air_density : {<< >>, <<Ratio(1, 1)>>}]

WheelInit ==
  /\ fn = "calculate_wheel_energy"
  /\ args \in WheelArgs
  /\ pc = "call"
  /\ loc = << >>
  /\ out = NoOut
  /\ rng = 0

WheelCallPhysics ==
  /\ args.impl = "physics.energy"
  /\ CallOf("calculate_wheel_energy", calculate_wheel_energy(args), 88)

WheelCallModels ==
  /\ args.impl = "models"
  /\ CallOf("calculate_wheel_energy", calculate_energy_consumption(args), 77)

WheelNext == WheelCallPhysics \/ WheelCallModels
SpecWheel == WheelInit /\ [][WheelNext]_vars

(***************************************************************************)
(* physics/emissions.py: calculate_co2_emissions, and models/equations.py: *)
(* calculate_technology_trip_emissions.  Fuel and energy amounts and the   *)
(* emissions (kg CO2) are in thousandths, the emission factors in 1e-8.    *)
(***************************************************************************)
DIESEL_CO2_PER_LITER == Ratio(268, 100)
GRID_ELECTRICITY_CO2_PER_KWH == Ratio(75, 100)
GREEN_H2_CO2_PER_KG == Ratio(48, 100)
GREY_H2_CO2_PER_KG == Ratio(10, 1)

\* core/types.py lines 21-29: the members of the enumeration FuelType
FuelTypeMembers ==
  {"DIESEL", "ELECTRIC", "ELECTRIC_BEV", "HYDROGEN", "HYDROGEN_FCEV",
   "BIODIESEL", "CNG", "LNG"}

\* The attribute lookup FuelType.<name>: Python raises AttributeError for a
\* name that is not a member.
HasMember(name) == name \in FuelTypeMembers

\* amount * factor
Times(amount, factor) == Then(amount, MulDiv(amount.v, factor, RateScale))

\* lines 54-73, for a fuel_type that is a member of FuelType
calculate_co2_emissions(a) ==
  IF a.fuel_type = "DIESEL"
    THEN NpvOutcome(Times(Ok(a.fuel_consumed), DIESEL_CO2_PER_LITER), 55, 55)
  ELSE IF a.fuel_type = "ELECTRIC"
    THEN NpvOutcome(Times(Ok(a.fuel_consumed), a.grid_carbon_intensity),
                    58, 58)
  ELSE IF a.fuel_type = "HYDROGEN"
    THEN IF a.h2_production_method = "green"
           THEN NpvOutcome(Times(Ok(a.fuel_consumed), GREEN_H2_CO2_PER_KG),
                           62, 62)
           ELSE NpvOutcome(Times(Ok(a.fuel_consumed), GREY_H2_CO2_PER_KG),
                           64, 64)
  ELSE IF ~HasMember("HYBRID_DIESEL_ELECTRIC")
           \/ ~HasMember("HYBRID_PETROL_ELECTRIC")
    THEN Raise("AttributeError", 66)
  ELSE IF a.fuel_type \in {"HYBRID_DIESEL_ELECTRIC", "HYBRID_PETROL_ELECTRIC"}
    THEN LET diesel_emissions ==
               Times(Times(Ok(a.fuel_consumed), RateScale \div 2),
                     DIESEL_CO2_PER_LITER)
             electric_emissions ==
               Times(Times(Ok(a.fuel_consumed), RateScale \div 2),
                     a.grid_carbon_intensity)
         IN NpvOutcome(FAdd(diesel_emissions, electric_emissions), 70, 70)
  ELSE Return(0, 73)

\* models/equations.py lines 153-172
calculate_technology_trip_emissions(a) ==
  LET tech == Lower(a.technology)
  IN IF tech = "bev"
       THEN NpvOutcome(Times(Ok(a.energy_consumed), a.grid_carbon_intensity),
                       156, 156)
     ELSE IF tech = "fcet"
       THEN NpvOutcome(Times(Ok(a.energy_consumed), a.h2_carbon_intensity),
                       159, 159)
     ELSE IF tech = "diesel"
       THEN NpvOutcome(Times(Ok(a.energy_consumed), DIESEL_CO2_PER_LITER),
                       162, 162)
     ELSE IF tech = "hybrid"
       THEN LET diesel_portion ==
                  Times(Ok(a.energy_consumed), RateScale \div 2)
                electric_portion ==
                  Times(Ok(a.energy_consumed), RateScale \div 2)
            IN NpvOutcome(FAdd(Times(diesel_portion, DIESEL_CO2_PER_LITER),
                               Times(electric_portion,
                                     a.grid_carbon_intensity)),
                          168, 168)
     ELSE Raise("ValueError", 172)

DIESEL_NOX_PER_KM == Ratio(5, 1)
DIESEL_PM_PER_KM == Ratio(1, 100)

\* lines 98-108 (NOx) and 130-140 (PM), which differ only in the diesel
\* factor and the line numbers: first is the line of the first return
PerKmEmissions(a, per_km, first) ==
  IF a.fuel_type = "DIESEL"
    THEN NpvOutcome(Times(Ok(a.distance_km), per_km), first, first)
  ELSE IF a.fuel_type \in {"ELECTRIC", "HYDROGEN"}
    THEN Return(0, first + 3)
  ELSE IF ~HasMember("HYBRID_DIESEL_ELECTRIC")
           \/ ~HasMember("HYBRID_PETROL_ELECTRIC")
    THEN Raise("AttributeError", first + 5)
  ELSE IF a.fuel_type \in {"HYBRID_DIESEL_ELECTRIC", "HYBRID_PETROL_ELECTRIC"}
    THEN NpvOutcome(Times(Times(Ok(a.distance_km), per_km), RateScale \div 2),
                    first + 6, first + 6)
  ELSE Return(0, first + 9)

\* lines 98-108
calculate_nox_emissions(a) == PerKmEmissions(a, DIESEL_NOX_PER_KM, 99)

\* lines 130-140
calculate_pm_emissions(a) == PerKmEmissions(a, DIESEL_PM_PER_KM, 131)

\* The fuel types a caller names: the members of FuelType and the two
\* hybrid names that line 66 refers to.
HybridFuelTypes == {"HYBRID_DIESEL_ELECTRIC", "HYBRID_PETROL_ELECTRIC"}
EmissionAmounts == {Amount(0, 1), Amount(50, 1), Amount(100, 1)}
GridIntensities == {GRID_ELECTRICITY_CO2_PER_KWH, Ratio(65, 100)}

Co2Args ==
  [fuel_consumed : EmissionAmounts,
   fuel_type : FuelTypeMembers \cup HybridFuelTypes,
   grid_carbon_intensity : GridIntensities,
   h2_production_method : {"green", "grey"}]

PerKmArgs ==
  [distance_km : EmissionAmounts,
   fuel_type : FuelTypeMembers \cup HybridFuelTypes]

TripArgs ==
  [technology : TechnologyTags,
   energy_consumed : EmissionAmounts,
   grid_carbon_intensity : GridIntensities,
   h2_carbon_intensity : {GREEN_H2_CO2_PER_KG, Ratio(9, 1)}]

EmissionsInit ==
  /\ \/ fn = "calculate_co2_emissions" /\ args \in Co2Args
     \/ fn = "calculate_technology_trip_emissions" /\ args \in TripArgs
     \/ fn \in {"calculate_nox_emissions", "calculate_pm_emissions"}
          /\ args \in PerKmArgs
  /\ pc = "call"
  /\ loc = << >>
  /\ out = NoOut
  /\ rng = 0

\* The caller evaluates FuelType.<name> for the argument, then calls: for a
\* name that is not a member the lookup raises in the caller (core/types.py
\* line 21, the class) and the function is never entered.
Co2Call ==
  /\ fn = "calculate_co2_emissions" /\ pc = "call"
  /\ out' = IF HasMember(args.fuel_type) THEN calculate_co2_emissions(args)
            ELSE Raise("AttributeError", 21)
  /\ pc' = IF out'.kind = "beyond" THEN "beyond" ELSE "done"
  /\ UNCHANGED <<fn, args, loc, rng>>

TripCall ==
  /\ fn = "calculate_technology_trip_emissions" /\ pc = "call"
  /\ out' = calculate_technology_trip_emissions(args)
  /\ pc' = IF out'.kind = "beyond" THEN "beyond" ELSE "done"
  /\ UNCHANGED <<fn, args, loc, rng>>

NoxCall ==
  /\ fn = "calculate_nox_emissions" /\ pc = "call"
  /\ out' = IF HasMember(args.fuel_type) THEN calculate_nox_emissions(args)
            ELSE Raise("AttributeError", 21)
  /\ pc' = IF out'.kind = "beyond" THEN "beyond" ELSE "done"
  /\ UNCHANGED <<fn, args, loc, rng>>

PmCall ==
  /\ fn = "calculate_pm_emissions" /\ pc = "call"
  /\ out' = IF HasMember(args.fuel_type) THEN calculate_pm_emissions(args)
            ELSE Raise("AttributeError", 21)
  /\ pc' = IF out'.kind = "beyond" THEN "beyond" ELSE "done"
  /\ UNCHANGED <<fn, args, loc, rng>>

EmissionsNext == Co2Call \/ TripCall \/ NoxCall \/ PmCall
SpecEmissions == EmissionsInit /\ [][EmissionsNext]_vars

(***************************************************************************)
(* Emissions of a fleet in transition: physics/emissions.py                *)
(* calculate_transition_emissions and models/equations.py                  *)
(* calculate_longitudinal_transition_emissions.  A dict is a function      *)
(* whose domain is its key set; emissions are in thousandths of a kg,      *)
(* adoption rates in units of 1e-8.                                        *)
(***************************************************************************)
RECURSIVE SumOver(_, _)
\* sum(... for key in keys), term by term
SumOver(keys, term) ==
  IF keys = {} THEN Ok(0)
  ELSE LET k == CHOOSE x \in keys : TRUE
       IN FAdd(term[k], SumOver(keys \ {k}, term))

\* physics/emissions.py lines 287-295
calculate_transition_emissions(a) ==
  LET total_adoption ==
        SumOver(DOMAIN a.adoption_rates,
                [t \in DOMAIN a.adoption_rates |-> Ok(a.adoption_rates[t])])
      remaining_baseline ==
        Then(total_adoption,
             Times(Ok(a.baseline_emissions), RateScale - total_adoption.v))
      new_tech_emissions ==
        SumOver(DOMAIN a.adoption_rates,
                [t \in DOMAIN a.adoption_rates |->
                   IF t \in DOMAIN a.technology_emissions
                     THEN Times(Ok(a.technology_emissions[t]),
                                a.adoption_rates[t])
                     ELSE Times(Ok(0), a.adoption_rates[t])])
  IN FAdd(remaining_baseline, new_tech_emissions)

\* models/equations.py lines 213-221
calculate_longitudinal_transition_emissions(a) ==
  LET remaining_baseline ==
        Times(Ok(a.baseline_emissions), RateScale - a.total_adoption_rate)
      counted == DOMAIN a.technology_emissions \cap DOMAIN a.adoption_rates
      new_tech_emissions ==
        SumOver(counted,
                [t \in counted |->
                   Times(Ok(a.technology_emissions[t]), a.adoption_rates[t])])
  IN FAdd(remaining_baseline, new_tech_emissions)

NewTechnologies == {"bev", "fcet"}
DictsOver(values) ==
  UNION {[keys -> values] : keys \in SUBSET NewTechnologies}
BaselineEmissions == {Amount(1000, 1), Amount(10000, 1)}
TechnologyEmissions == DictsOver({Amount(200, 1), Amount(300, 1)})
AdoptionRates == DictsOver({Ratio(20, 100), Ratio(30, 100)})
TotalAdoptionRates == {Ratio(20, 100), Ratio(30, 100), Ratio(50, 100)}

TransitionInit ==
  /\ \/ /\ fn = "calculate_transition_emissions"
        /\ args \in [baseline_emissions : BaselineEmissions,
                     technology_emissions : TechnologyEmissions,
                     adoption_rates : AdoptionRates]
     \/ /\ fn = "calculate_longitudinal_transition_emissions"
        /\ args \in [baseline_emissions : BaselineEmissions,
                     technology_emissions : TechnologyEmissions,
                     adoption_rates : AdoptionRates,
                     total_adoption_rate : TotalAdoptionRates]
  /\ pc = "call"
  /\ loc = << >>
  /\ out = NoOut
  /\ rng = 0

TransitionCall ==
  CallOf("calculate_transition_emissions",
         calculate_transition_emissions(args), 295)

LongitudinalTransitionCall ==
  CallOf("calculate_longitudinal_transition_emissions",
         calculate_longitudinal_transition_emissions(args), 221)

TransitionNext == TransitionCall \/ LongitudinalTransitionCall
SpecTransition == TransitionInit /\ [][TransitionNext]_vars

(***************************************************************************)
(* The technology mix heuristic: optimization/fleet_optimizer.py           *)
(* optimize_technology_mix and its copy in models/equations.py.  An array  *)
(* is a sequence indexed from 1, costs are in thousandths of a dollar,     *)
(* ranges, capacities, demand and infrastructure are whole numbers, shares *)
(* are in units of 1e-8.  An optional argument is << >> when it is left    *)
(* out and <<value>> when it is given.                                     *)
(***************************************************************************)
\* np.where(feasible)[0]: the indices that pass, in ascending order
FeasibleIndices(a) ==
  {i \in 1..Len(a.technologies) :
     a.vehicle_ranges[i] >= a.range_requirements[i]}

\* a variant that resolves a tie towards the last index
ArgMinLast(costs, indices) ==
  CHOOSE i \in indices :
    \A j \in indices : costs[i] < costs[j] \/ (costs[i] = costs[j] /\ j <= i)

\* feasible_indices[np.argmin(feasible_costs)]: the first index of the
\* smallest cost
ArgMin(costs, indices) ==
  CHOOSE i \in indices :
    \A j \in indices : costs[i] < costs[j] \/ (costs[i] = costs[j] /\ i <= j)

\* np.ceil(x / y) for whole x >= 0 and y > 0
CeilDiv(x, y) == (x + y - 1) \div y

\* fleet_optimizer.py lines 131-174 (models/equations.py lines 714-760); the
\* value is the outcome together with the index chosen at line 147
optimize_technology_mix(a) ==
  LET n_tech == Len(a.technologies)
      total_costs ==
        [i \in 1..n_tech |-> a.capital_costs[i] + a.maintenance_costs[i]
                               + a.degradation_costs[i]]
      feasible_indices == FeasibleIndices(a)
  IN IF feasible_indices = {}
       THEN [outcome |-> Raise("ValueError", 143), optimal_idx |-> 0]
     ELSE
       LET optimal_idx == ArgMin(total_costs, feasible_indices)
           optimal == a.technologies[optimal_idx]
           names == {a.technologies[i] : i \in 1..n_tech}
           result == [tech \in names |-> 0]
           adoption_rate ==
             IF a.max_adoption # << >>
                  /\ optimal_idx <= Len(a.max_adoption[1])
               THEN Min(RateScale, a.max_adoption[1][optimal_idx])
               ELSE RateScale
           optimal_capacity == a.load_capacities[optimal_idx]
           vehicles_needed == CeilDiv(a.total_demand, optimal_capacity)
           infrastructure_fraction ==
             MulDiv(a.charging_infrastructure, RateScale, vehicles_needed).v
           enough ==
             LET chosen == [result EXCEPT ![optimal] = adoption_rate]
             IN IF "diesel" \in names /\ adoption_rate < RateScale
                  THEN [chosen EXCEPT !["diesel"] = RateScale - adoption_rate]
                  ELSE chosen
           mixed ==
             LET chosen ==
                   [result EXCEPT
                      ![optimal] = Min(adoption_rate, infrastructure_fraction)]
             IN IF "diesel" \in names
                  THEN [chosen EXCEPT !["diesel"] = RateScale - chosen[optimal]]
                  ELSE chosen
       IN [outcome |-> IF vehicles_needed <= a.charging_infrastructure
                         THEN Return(enough, 174)
                         ELSE Return(mixed, 174),
           optimal_idx |-> optimal_idx]

TechnologyLists ==
  {<<"bev", "fcet", "diesel">>, <<"diesel", "bev", "fcet">>,
   <<"bev", "fcet", "hybrid">>}
CapitalCosts == {Dollars(200), Dollars(400)}
MaintenanceCosts == {Dollars(20), Dollars(220)}
DegradationCosts == {Dollars(10)}
RangeRequirements == {150}
VehicleRanges == {100, 200}
LoadCapacities == {36000}
TotalDemands == {36000, 1000000}
ChargingInfrastructures == {0, 7, 50}
MaxAdoptions ==
  {<< >>, << <<Ratio(1, 2)>> >>,
   << <<Ratio(8, 10), Ratio(6, 10), RateScale>> >>}

OptimizeArgs ==
  UNION {[impl : {"optimization.fleet_optimizer", "models.equations"},
          technologies : {t},
          capital_costs : [1..Len(t) -> CapitalCosts],
          maintenance_costs : [1..Len(t) -> MaintenanceCosts],
          degradation_costs : [1..Len(t) -> DegradationCosts],
          range_requirements : [1..Len(t) -> RangeRequirements],
          vehicle_ranges : [1..Len(t) -> VehicleRanges],
          load_capacities : [1..Len(t) -> LoadCapacities],
          total_demand : TotalDemands,
          charging_infrastructure : ChargingInfrastructures,
          max_adoption : MaxAdoptions] : t \in TechnologyLists}

OptimizeInit ==
  /\ fn = "optimize_technology_mix"
  /\ args \in OptimizeArgs
  /\ pc = "call"
  /\ loc = << >>
  /\ out = NoOut
  /\ rng = 0

\* one call of the function of the named module
OptimizeCallOf(impl) ==
  /\ fn = "optimize_technology_mix" /\ pc = "call" /\ args.impl = impl
  /\ LET call == optimize_technology_mix(args)
     IN /\ out' = call.outcome
        /\ loc' = [optimal_idx |-> call.optimal_idx]
  /\ pc' = "done"
  /\ UNCHANGED <<fn, args, rng>>

OptimizeCall == OptimizeCallOf("optimization.fleet_optimizer")
EquationsOptimizeCall == OptimizeCallOf("models.equations")

OptimizeNext == OptimizeCall \/ EquationsOptimizeCall
SpecOptimize == OptimizeInit /\ [][OptimizeNext]_vars

(***************************************************************************)
(* The data model and its validation: core/models.py (the dataclasses      *)
(* VehicleSpecs, OperationalProfile, FinancialParams and                   *)
(* DecarbonizationScenario) and core/validation.py.  Every float field is  *)
(* in thousandths of its unit, every int field a whole number; an Optional *)
(* field is << >> for None and <<value>> otherwise.  Only the fields that  *)
(* the validation reads are kept.  A message is the record of what the     *)
(* f-string of the raise puts into the text.                               *)
(***************************************************************************)
\* core/models.py lines 50-89: the generated __init__ stores the fields
VehicleSpecs(a) ==
  [mass_kg |-> a.mass_kg,
   frontal_area_m2 |-> a.frontal_area_m2,
   drag_coefficient |-> a.drag_coefficient,
   rolling_resistance |-> a.rolling_resistance,
   max_range_km |-> a.max_range_km,
   energy_efficiency |-> a.energy_efficiency,
   initial_cost |-> a.initial_cost,
   battery_degradation_rate |-> a.battery_degradation_rate]

\* core/models.py lines 92-114
OperationalProfile(a) ==
  [annual_km |-> a.annual_km,
   operating_days_per_year |-> a.operating_days_per_year,
   daily_km |-> a.daily_km,
   average_velocity_kmh |-> a.average_velocity_kmh,
   utilization_rate |-> a.utilization_rate,
   load_factor |-> a.load_factor]

\* core/models.py lines 117-140
FinancialParams(a) ==
  [discount_rate |-> a.discount_rate,
   analysis_period_years |-> a.analysis_period_years,
   fuel_price_escalation |-> a.fuel_price_escalation,
   electricity_price_escalation |-> a.electricity_price_escalation,
   h2_price_escalation |-> a.h2_price_escalation,
   maintenance_cost_escalation |-> a.maintenance_cost_escalation,
   fuel_price_per_unit |-> a.fuel_price_per_unit,
   electricity_price_per_kwh |-> a.electricity_price_per_kwh,
   h2_price_per_kg |-> a.h2_price_per_kg]

\* core/models.py lines 143-164
DecarbonizationScenario(specs, profile, params) ==
  [vehicle_specs |-> specs,
   operational_profile |-> profile,
   financial_params |-> params]

\* core/validation.py lines 22-25
validate_positive(value, name) ==
  IF value <= 0
    THEN Raise([error |-> "ValidationError", name |-> name,
                must |-> <<"be positive">>, got |-> value], 25)
    ELSE Return("None", 24)

\* core/validation.py lines 28-33
validate_range(value, name, min_val, max_val) ==
  IF ~(min_val <= value /\ value <= max_val)
    THEN Raise([error |-> "ValidationError", name |-> name,
                must |-> <<"be between", min_val, max_val>>, got |-> value],
               31)
    ELSE Return("None", 30)

\* core/validation.py lines 36-38
validate_percentage(value, name) ==
  validate_range(value, name, Amount(0, 1), Amount(1, 1))

\* a variant that keeps only the first violation
TryAppendFirstOnly(errors, call) ==
  IF call.kind = "raise" /\ errors = << >> THEN <<call.value>> ELSE errors

\* try: <call> / except ValidationError as e: errors.append(str(e))
TryAppend(errors, call) ==
  IF call.kind = "raise" THEN Append(errors, call.value) ELSE errors

\* core/validation.py lines 55-103
validate_vehicle_specs(specs) ==
  LET e1 == TryAppend(<< >>, validate_positive(specs.mass_kg, "Vehicle mass"))
      e2 == TryAppend(e1, validate_positive(specs.frontal_area_m2,
                                            "Frontal area"))
      e3 == TryAppend(e2, validate_range(specs.drag_coefficient,
                                         "Drag coefficient",
                                         Amount(1, 10), Amount(2, 1)))
      e4 == TryAppend(e3, validate_range(specs.rolling_resistance,
                                         "Rolling resistance",
                                         Amount(1, 1000), Amount(5, 100)))
      e5 == TryAppend(e4, validate_positive(specs.max_range_km,
                                            "Maximum range"))
      e6 == TryAppend(e5, validate_percentage(specs.energy_efficiency,
                                              "Energy efficiency"))
      e7 == TryAppend(e6, validate_positive(specs.initial_cost,
                                            "Initial cost"))
      e8 == IF specs.battery_degradation_rate # << >>
              THEN TryAppend(e7,
                             validate_range(specs.battery_degradation_rate[1],
                                            "Battery degradation rate",
                                            Amount(0, 1), Amount(1, 1)))
              ELSE e7
  IN <<Len(e8) = 0, e8>>

\* core/validation.py lines 120-171
validate_operational_profile(profile) ==
  LET e1 == TryAppend(<< >>, validate_positive(profile.annual_km,
                                               "Annual kilometers"))
      e2 == TryAppend(e1, validate_positive(profile.operating_days_per_year,
                                            "Operating days"))
      e3 == TryAppend(e2, validate_range(profile.operating_days_per_year,
                                         "Operating days per year", 1, 365))
      e4 == TryAppend(e3, validate_positive(profile.daily_km,
                                            "Daily kilometers"))
      e5 == TryAppend(e4, validate_positive(profile.average_velocity_kmh,
                                            "Average velocity"))
      e6 == TryAppend(e5, validate_percentage(profile.utilization_rate,
                                              "Utilization rate"))
      e7 == TryAppend(e6, validate_percentage(profile.load_factor,
                                              "Load factor"))
      expected_annual_km == profile.daily_km * profile.operating_days_per_year
      e8 == IF Abs(profile.annual_km - expected_annual_km)
                 > MulDiv(expected_annual_km, Amount(2, 10), MoneyScale).v
              THEN Append(e7, [error |-> "inconsistent", name |-> "Annual km",
                               must |-> <<"be consistent with",
                                          profile.daily_km,
                                          profile.operating_days_per_year>>,
                               got |-> profile.annual_km])
              ELSE e7
  IN <<Len(e8) = 0, e8>>

RECURSIVE EscalationLoop(_, _)
\* core/validation.py lines 218-222
EscalationLoop(errors, escalation_params) ==
  IF escalation_params = << >> THEN errors
  ELSE LET rate == Head(escalation_params)[1]
           name == Head(escalation_params)[2]
       IN EscalationLoop(TryAppend(errors,
                                   validate_range(rate, name, Amount(-1, 10),
                                                  Amount(3, 10))),
                         Tail(escalation_params))

\* core/validation.py lines 188-240
validate_financial_params(params) ==
  LET e1 == TryAppend(<< >>, validate_range(params.discount_rate,
                                            "Discount rate",
                                            Amount(0, 1), Amount(5, 10)))
      e2 == TryAppend(e1, validate_positive(params.analysis_period_years,
                                            "Analysis period"))
      e3 == TryAppend(e2, validate_range(params.analysis_period_years,
                                         "Analysis period years", 1, 30))
      escalation_params ==
        <<<<params.fuel_price_escalation, "Fuel price escalation">>,
          <<params.electricity_price_escalation,
            "Electricity price escalation">>,
          <<params.h2_price_escalation, "H2 price escalation">>,
          <<params.maintenance_cost_escalation,
            "Maintenance cost escalation">>>>
      e4 == EscalationLoop(e3, escalation_params)
      e5 == TryAppend(e4, validate_positive(params.fuel_price_per_unit,
                                            "Fuel price"))
      e6 == TryAppend(e5, validate_positive(params.electricity_price_per_kwh,
                                            "Electricity price"))
      e7 == TryAppend(e6, validate_positive(params.h2_price_per_kg,
                                            "Hydrogen price"))
  IN <<Len(e7) = 0, e7>>

\* core/validation.py lines 257-273
validate_scenario(scenario) ==
  LET spec_errors == validate_vehicle_specs(scenario.vehicle_specs)[2]
      ops_errors ==
        validate_operational_profile(scenario.operational_profile)[2]
      fin_errors == validate_financial_params(scenario.financial_params)[2]
      errors == spec_errors \o ops_errors \o fin_errors
  IN <<Len(errors) = 0, errors>>

\* The field values a caller constructs the records with: the defaults of
\* core/models.py and values on both sides of each validated bound.
VehicleFields ==
  [mass_kg : {Amount(-1, 1), Amount(0, 1), Amount(18000, 1)},
   frontal_area_m2 : {Amount(8, 1)},
   drag_coefficient : {Amount(1, 1)},
   rolling_resistance : {Amount(6, 1000)},
   max_range_km : {Amount(400, 1)},
   energy_efficiency : {Amount(0, 1), Amount(85, 100), Amount(15, 10)},
   initial_cost : {Amount(0, 1), Amount(200000, 1)},
   battery_degradation_rate :
     {<< >>, <<Amount(106, 1000)>>, <<Amount(15, 10)>>}]

ProfileFields ==
  [annual_km : {Amount(100000, 1), Amount(120000, 1), Amount(50000, 1)},
   operating_days_per_year : {0, 250},
   daily_km : {Amount(400, 1)},
   average_velocity_kmh : {Amount(80, 1)},
   utilization_rate : {Amount(85, 100), Amount(12, 10)},
   load_factor : {Amount(75, 100)}]

FinancialFields ==
  [discount_rate : {Amount(-1, 100), Amount(8, 100), Amount(6, 10)},
   analysis_period_years : {0, 5, 31},
   fuel_price_escalation : {Amount(3, 100), Amount(5, 10)},
   electricity_price_escalation : {Amount(2, 100)},
   h2_price_escalation : {Amount(1, 100)},
   maintenance_cost_escalation : {Amount(25, 1000)},
   fuel_price_per_unit : {Amount(15, 10)},
   electricity_price_per_kwh : {Amount(25, 100)},
   h2_price_per_kg : {Amount(8, 1)}]

ScenarioInit ==
  /\ fn = "validate_scenario"
  /\ args \in [vehicle : VehicleFields, profile : ProfileFields,
               financial : FinancialFields]
  /\ pc = "vehicle_specs"
  /\ loc = << >>
  /\ out = NoOut
  /\ rng = 0

\* VehicleSpecs(...)
NewVehicleSpecs ==
  /\ fn = "validate_scenario" /\ pc = "vehicle_specs"
  /\ loc' = [vehicle_specs |-> VehicleSpecs(args.vehicle)]
  /\ out' = Return("VehicleSpecs", 51)
  /\ pc' = "operational_profile"
  /\ UNCHANGED <<fn, args, rng>>

\* OperationalProfile(...)
NewOperationalProfile ==
  /\ fn = "validate_scenario" /\ pc = "operational_profile"
  /\ loc' = [vehicle_specs |-> loc.vehicle_specs,
             operational_profile |-> OperationalProfile(args.profile)]
  /\ out' = Return("OperationalProfile", 93)
  /\ pc' = "financial_params"
  /\ UNCHANGED <<fn, args, rng>>

\* FinancialParams(...)
NewFinancialParams ==
  /\ fn = "validate_scenario" /\ pc = "financial_params"
  /\ loc' = [vehicle_specs |-> loc.vehicle_specs,
             operational_profile |-> loc.operational_profile,
             financial_params |-> FinancialParams(args.financial)]
  /\ out' = Return("FinancialParams", 118)
  /\ pc' = "validate"
  /\ UNCHANGED <<fn, args, rng>>

\* validate_scenario(DecarbonizationScenario(...))
ValidateScenario ==
  /\ fn = "validate_scenario" /\ pc = "validate"
  /\ out' = Return(validate_scenario(
                     DecarbonizationScenario(loc.vehicle_specs,
                                             loc.operational_profile,
                                             loc.financial_params)), 273)
  /\ pc' = "done"
  /\ UNCHANGED <<fn, args, loc, rng>>

ScenarioNext ==
  \/ NewVehicleSpecs
  \/ NewOperationalProfile
  \/ NewFinancialParams
  \/ ValidateScenario
SpecScenario == ScenarioInit /\ [][ScenarioNext]_vars

(***************************************************************************)
(* The calibration check of models/equations.py:                           *)
(* validate_queensland_trials and the functions it calls.  Ranges are in   *)
(* thousandths of a km, energies in whole Joules, kWh in thousandths.      *)
(***************************************************************************)
BEV_BATTERY_TO_WHEEL == Ratio(85, 100)

\* models/equations.py lines 438-452
calculate_wheel_energy_per_trip(a) ==
  LET E_gravity == EGravity(a.mass, a.grade_angle, a.distance)
      E_rolling == ERolling(ROLLING_RESISTANCE_COEFF, a.mass, a.distance)
      E_aero == EAero(DEFAULT_DRAG_COEFFICIENT, AIR_DENSITY_SEA_LEVEL,
                      DEFAULT_FRONTAL_AREA, a.velocity, a.distance)
  IN FAdd(FAdd(FAdd(E_gravity, E_rolling), E_aero), Ok(a.auxiliary_energy))

\* models/equations.py lines 485-486
calculate_battery_electric_energy(a) ==
  LET efficiency == FMul(Ok(a.drivetrain_efficiency), Ok(a.battery_efficiency))
  IN Then(efficiency, MulDiv(a.wheel_energy, RateScale, efficiency.v))

\* min_val <= x <= max_val of a computed number
Within(min_val, x, max_val) == min_val <= x.v /\ x.v <= max_val

\* models/equations.py lines 783-816
validate_queensland_trials ==
  LET initial_range == Capacity(300)
      years == Ratio(3, 2)
      cycles == 500
      degraded_range ==
        calculate_battery_performance_degradation(
          [initial_capacity |-> initial_range, years |-> years,
           cycles |-> cycles, degradation_rate |-> BATTERY_DEGRADATION_RATE,
           degradation_per_cycle |-> Ratio(1, 10000)])
      degradation_percent ==
        Then(degraded_range,
             MulDiv(initial_range - degraded_range.v, RateScale,
                    initial_range))
      effective_range ==
        equations_calculate_operational_range(
          [rated_range |-> Capacity(300),
           battery_performance_factor |-> Ratio(85, 100),
           temperature_factor |-> RateScale, load_factor |-> RateScale,
           gradient_factor |-> RateScale])
      wheel_energy ==
        calculate_wheel_energy_per_trip(
          [mass |-> 36000, grade_angle |-> 0, distance |-> 120000,
           velocity |-> Fine(222, 10), auxiliary_energy |-> 0])
      battery_energy ==
        Then(wheel_energy,
             calculate_battery_electric_energy(
               [wheel_energy |-> wheel_energy.v,
                drivetrain_efficiency |-> BEV_BATTERY_TO_WHEEL,
                battery_efficiency |-> Ratio(94, 100)]))
      battery_energy_kwh ==
        Then(battery_energy, MulDiv(battery_energy.v, MoneyScale, 3600000))
      results ==
        [degradation_15_percent |->
           Within(Ratio(13, 100), degradation_percent, Ratio(17, 100)),
         range_100_200_km |->
           Within(Capacity(100), effective_range, Capacity(300)),
         energy_reasonable |->
           Within(Amount(50, 1), battery_energy_kwh, Amount(300, 1))]
      computed ==
        Then(degradation_percent, Then(effective_range, battery_energy_kwh))
  IN IF computed.st = "ok" THEN Return(results, 816)
     ELSE Failure(computed, 816)

TrialsArgs(f) ==
  IF f = "validate_queensland_trials" THEN {<< >>}
  ELSE IF f = "calculate_battery_performance_degradation"
    THEN [initial_capacity : {Capacity(300), Capacity(400)},
          years : {0, Ratio(3, 2)},
          cycles : {0, 250, 500},
          degradation_rate : {BATTERY_DEGRADATION_RATE, Ratio(8, 100)},
          degradation_per_cycle : {0, Ratio(1, 10000)}]
  ELSE IF f = "calculate_operational_range"
    THEN [rated_range : {Capacity(300)},
          battery_performance_factor : {Ratio(85, 100), RateScale},
          temperature_factor : {Ratio(9, 10), RateScale},
          load_factor : {RateScale},
          gradient_factor : {Ratio(9, 10), RateScale}]
  ELSE IF f = "calculate_wheel_energy_per_trip"
    THEN [mass : {18000, 36000},
          grade_angle : {0, Ratio(1, 100)},
          distance : {100000, 120000},
          velocity : {Fine(222, 10)},
          auxiliary_energy : {0, 1000000}]
  ELSE [wheel_energy : {0, 100000000, 544065120},
        drivetrain_efficiency : {0, BEV_BATTERY_TO_WHEEL, Ratio(9, 10)},
        battery_efficiency : {Ratio(94, 100)}]

TrialsFunctions ==
  {"validate_queensland_trials", "calculate_battery_performance_degradation",
   "calculate_operational_range", "calculate_wheel_energy_per_trip",
   "calculate_battery_electric_energy"}

TrialsInit ==
  /\ fn \in TrialsFunctions
  /\ args \in TrialsArgs(fn)
  /\ pc = "call"
  /\ loc = << >>
  /\ out = NoOut
  /\ rng = 0

ValidateQueenslandTrials ==
  /\ fn = "validate_queensland_trials" /\ pc = "call"
  /\ out' = validate_queensland_trials
  /\ pc' = IF out'.kind = "beyond" THEN "beyond" ELSE "done"
  /\ UNCHANGED <<fn, args, loc, rng>>

TrialsDegradationCall ==
  CallOf("calculate_battery_performance_degradation",
         calculate_battery_performance_degradation(args), 284)
TrialsRangeCall ==
  CallOf("calculate_operational_range",
         equations_calculate_operational_range(args), 370)
WheelEnergyPerTripCall ==
  CallOf("calculate_wheel_energy_per_trip",
         calculate_wheel_energy_per_trip(args), 452)
BatteryElectricEnergyCall ==
  CallOf("calculate_battery_electric_energy",
         calculate_battery_electric_energy(args), 486)

TrialsNext ==
  \/ ValidateQueenslandTrials
  \/ TrialsDegradationCall
  \/ TrialsRangeCall
  \/ WheelEnergyPerTripCall
  \/ BatteryElectricEnergyCall
SpecTrials == TrialsInit /\ [][TrialsNext]_vars

(***************************************************************************)
(* Every function together                                                 *)
(***************************************************************************)
Init == IrrInit \/ NpvInit \/ PaybackInit \/ RiskInit \/ McInit
Next == IrrNext \/ NpvNext \/ PaybackNext \/ RiskNext \/ McNext
Spec == Init /\ [][Next]_vars

(***************************************************************************)
(* Claims                                                                  *)
(***************************************************************************)
IsIrr == fn = "calculate_irr"
IsNpv == fn = "calculate_npv"
IsPayback == fn = "calculate_payback_period"
IsRisk == fn = "calculate_risk_adjusted_npv"

\* |calculate_npv(I, CF, r)| < 0.01 for the arguments of the call
NpvWithinTolerance(r) ==
  LET v == calculate_npv(args.initial_investment, args.annual_cashflows, r)
  IN v.st = "ok" /\ Abs(v.v) < Tolerance

\* C1: calculate_irr makes at most max_iterations passes and always ends by
\* returning: either at the convergence exit (line 84), with an estimate r*
\* such that |npv(I, CF, r*)| < 0.01, or after exactly max_iterations passes
\* with the last estimate (line 90).
C1_IrrReturnsConvergedOrLastEstimate ==
  IsIrr =>
    /\ loc.it <= args.max_iterations
    /\ pc = "done" =>
         /\ out.kind = "return"
         /\ \/ out.line = 84 /\ NpvWithinTolerance(out.value)
            \/ /\ out.line = 90
               /\ loc.it = args.max_iterations
               /\ out.value = loc.irr

\* C2: calculate_irr never raises an exception, whatever the estimate
\* becomes during the iteration.
C2_IrrNeverRaises == IsIrr => out.kind # "raise"

\* The derivative of NPV is zero at the estimate irr (and was computed).
ZeroDerivativeAt(irr) ==
  LET s == IrrEvaluate(args, irr)
  IN s.npv.st = "ok" /\ s.npv_derivative.v = 0

\* C3: when the derivative of NPV is zero at the current estimate, the step
\* divides by nothing and raises nothing, the estimate is unchanged after
\* it (hence in every following pass), and a return made by the step
\* returns that estimate.
C3_ZeroDerivativeStalls ==
  [][(IsIrr /\ pc = "loop" /\ ZeroDerivativeAt(loc.irr)) =>
       /\ out'.kind \in {"none", "return"}
       /\ pc' \in {"loop", "done"}
       /\ loc'.irr = loc.irr
       /\ (out'.kind = "return" => out'.value = loc.irr)]_vars

HasNonZero(cashflows) == \E t \in 1..Len(cashflows) : cashflows[t] # 0

\* C3 witness: a call with non-zero cashflows that stalled on a zero
\* derivative for two passes and returned the stalled estimate.
C3_Witness ==
  /\ IsIrr /\ pc = "done" /\ out.kind = "return" /\ out.line = 90
  /\ loc.it >= 2
  /\ HasNonZero(args.annual_cashflows)
  /\ ZeroDerivativeAt(out.value)
  /\ ~NpvWithinTolerance(out.value)

\* The values that calls of calculate_irr on the given cashflows (any
\* investment, any max_iterations) return through the convergence exit
\* (line 84).
ConvergedIrrValues(cashflows) ==
  {calculate_irr(a).value :
     a \in {b \in IrrArgs :
              /\ b.annual_cashflows = cashflows
              /\ LET o == calculate_irr(b)
                 IN o.kind = "return" /\ o.line = 84}}

\* C4: the result of calculate_irr tells the caller whether the rate
\* converged: what a call returns after a stall or after max_iterations
\* passes (line 90) is never what a converged call returns.
C4_ResultTellsConvergence ==
  (IsIrr /\ pc = "done" /\ out.kind = "return" /\ out.line = 90)
    => out.value \notin ConvergedIrrValues(args.annual_cashflows)

\* The cumulative cashflow after year y.
RECURSIVE Cumulative(_, _)
Cumulative(cashflows, y) ==
  IF y = 0 THEN 0 ELSE Cumulative(cashflows, y - 1) + cashflows[y]

\* The years whose cumulative cashflow reaches the investment.
ReachingYears(a) ==
  {y \in 1..Len(a.annual_cashflows) :
     Cumulative(a.annual_cashflows, y) >= a.initial_investment}

FirstReachingYear(a) ==
  CHOOSE y \in ReachingYears(a) : \A z \in ReachingYears(a) : y <= z

\* C5: calculate_payback_period returns (y - 1) + (I - cumulative_{y-1}) /
\* CF_y for the first year y whose cumulative cashflow reaches I, a value in
\* (y - 1, y] when I > 0, and returns infinity when no year reaches I.
C5_PaybackInterpolatesOrInfinity ==
  (IsPayback /\ pc = "done") =>
    IF ReachingYears(args) = {}
      THEN out = Return(Infinity, 121)
      ELSE LET y == FirstReachingYear(args)
               before == Cumulative(args.annual_cashflows, y - 1)
               frac == MulDiv(args.initial_investment - before, RateScale,
                              args.annual_cashflows[y])
           IN /\ out.kind = "return"
              /\ frac.st = "ok"
              /\ out.value = (y - 1) * RateScale + frac.v
              /\ args.initial_investment > 0 =>
                   /\ out.value > (y - 1) * RateScale
                   /\ out.value <= y * RateScale

AllPositive(cashflows) == \A t \in 1..Len(cashflows) : cashflows[t] > 0

\* C6 as stated: for all discount rates r1 < r2 and positive cashflows,
\* calculate_npv(I, CF, r1) >= calculate_npv(I, CF, r2), whenever the two
\* calls return.
C6_NpvNonIncreasingInAnyRate ==
  (IsNpv /\ pc = "done" /\ AllPositive(args.annual_cashflows)
     /\ args.rates[1] < args.rates[2]
     /\ loc[1].kind = "return" /\ loc[2].kind = "return")
    => loc[1].value >= loc[2].value

\* C6 amended: for all discount rates -1 < r1 < r2 and positive cashflows,
\* both calls return and calculate_npv(I, CF, r1) >= calculate_npv(I, CF, r2).
C6_NpvNonIncreasingAboveMinusOne ==
  (IsNpv /\ pc = "done" /\ AllPositive(args.annual_cashflows)
     /\ -RateScale < args.rates[1] /\ args.rates[1] < args.rates[2]) =>
    /\ loc[1].kind = "return" /\ loc[2].kind = "return"
    /\ loc[1].value >= loc[2].value

\* C6 witness: two cashflows, two rates above -1, a strictly smaller NPV
\* at the larger rate.
C6_Witness ==
  /\ IsNpv /\ pc = "done" /\ AllPositive(args.annual_cashflows)
  /\ Len(args.annual_cashflows) = 2
  /\ -RateScale < args.rates[1] /\ args.rates[1] < args.rates[2]
  /\ loc[1].kind = "return" /\ loc[2].kind = "return"
  /\ loc[1].value > loc[2].value

\* A money amount rounded to the cent, in cents.
Cents(v) ==
  LET per == MoneyScale \div 100
  IN Sign(v) * ((Abs(v) + per \div 2) \div per)

IsDocExample ==
  /\ IsNpv
  /\ args.initial_investment = DocInvestment
  /\ args.annual_cashflows = DocCashflows
  /\ args.rates[1] = DEFAULT_DISCOUNT_RATE

C8_LengthMismatchRaises ==
  (IsRisk /\ pc # "call"
     /\ Len(args.annual_cashflows) # Len(args.cashflow_variances))
    => out.kind = "raise"

RECURSIVE SumSeq(_)
SumSeq(q) == IF q = << >> THEN 0 ELSE Head(q) + SumSeq(Tail(q))

\* C9: the summary a Monte Carlo run returns is computed from its n
\* buffered NPV values: n times the reported mean is their sum, and the
\* reported percentiles lie, in order, between their least and greatest.
C9_SummaryIsOfBufferedValues ==
  (fn = "MonteCarloSimulator.run" /\ pc = "done") =>
    /\ out.kind = "return"
    /\ LET r == out.value
           n == args.n_iterations
       IN /\ Len(r.npv_values) = n
          /\ n > 0 =>
               /\ n * r.mean = SumSeq(r.npv_values)
               /\ \E i \in 1..n : r.npv_values[i] <= r.p05
               /\ r.p05 <= r.p95
               /\ \E i \in 1..n : r.p95 <= r.npv_values[i]

\* C10: a trial that fails does not abort the run: the call ends by
\* returning, with all of its n_simulations trials accounted for.
C10_FailedTrialDoesNotAbort ==
  (fn = "monte_carlo_simulation" /\ pc = "done") =>
    out.kind = "return" /\ Len(out.value) = args.n_simulations

\* C11: the engine takes an optional seed and applies it once, before the
\* first trial: a seeded monte_carlo_simulation enters its first trial in
\* the seeded generator state and its result is the same whatever state
\* the generator was in before the call; the result of
\* MonteCarloSimulator.run is likewise the same for the same scenario and
\* number of trials.
C11_SeededRunsAreReproducible ==
  /\ (fn = "monte_carlo_simulation" /\ args.random_seed # << >>) =>
       /\ (pc = "loop" /\ loc.results = << >>) =>
            rng = RngSeed(args.random_seed[1])
       /\ pc = "done" =>
            \A s \in RngStates : out = monte_carlo_simulation(args, s)
  /\ (fn = "MonteCarloSimulator.run" /\ pc = "done") =>
       \A s \in RngStates : out.value = MonteCarloSimulator_run(args, s)

\* C12: a seeded run that executes interleaved with another consumer of
\* random numbers returns exactly what it returns when executed alone.
C12_InterleavedRunAsAlone ==
  (fn = "monte_carlo_simulation" /\ pc = "done"
     /\ args.random_seed # << >>) =>
    out = monte_carlo_simulation(args, 0)

\* The uncertainty has zero width around the base value.
ZeroWidth(base_params, item) ==
  /\ item[1] \in DOMAIN base_params
  /\ \/ /\ item[2].type = "normal"
        /\ "std" \in DOMAIN item[2] /\ item[2].std = 0
     \/ /\ item[2].type = "uniform"
        /\ "min" \in DOMAIN item[2] /\ item[2].min = base_params[item[1]]
        /\ "max" \in DOMAIN item[2] /\ item[2].max = base_params[item[1]]

\* C13: when every declared uncertainty has zero width, every trial of
\* monte_carlo_simulation yields the unperturbed parameters, and the
\* summary of MonteCarloSimulator.run (which declares no uncertainty)
\* has std = 0 and p05 = p95 = mean = each of the n values.
C13_ZeroWidthIsDeterministic ==
  /\ (fn = "monte_carlo_simulation" /\ pc = "done"
        /\ \A k \in 1..Len(args.uncertainty_params) :
             ZeroWidth(args.base_params, args.uncertainty_params[k])) =>
       /\ out.kind = "return"
       /\ Len(out.value) = args.n_simulations
       /\ \A i \in 1..Len(out.value) : out.value[i] = args.base_params
  /\ (fn = "MonteCarloSimulator.run" /\ pc = "done") =>
       LET r == out.value
       IN /\ r.std = 0
          /\ r.p05 = r.mean /\ r.p95 = r.mean
          /\ \A i \in 1..Len(r.npv_values) : r.npv_values[i] = r.mean

\* C14: the degradation functions return a capacity clamped to
\* [0, initial_capacity], for every years, cycles and rates.
C14_DegradationClamped ==
  (fn \in DegradationFunctions /\ pc = "done") =>
    /\ out.kind = "return"
    /\ 0 <= out.value
    /\ out.value <= args.initial_capacity

\* C15: calculate_operational_range returns the product of the rated range
\* and the four factors, floor-clamped at 0, in physics/degradation.py and
\* in models/equations.py: never a negative range.
C15_RangeFloorClamped ==
  (fn = "calculate_operational_range" /\ pc = "done") =>
    /\ out.kind = "return"
    /\ out.value = Max(0, EffectiveRange(args).v)
    /\ out.value >= 0

\* C16: whenever the decay rate is zero or negative, estimate_end_of_life
\* and estimate_remaining_life return the infinite sentinel, for every
\* current and initial capacity: no finite number, no exception.
C16_NonPositiveRateGivesInfinity ==
  (fn \in {"estimate_remaining_life", "estimate_end_of_life"}
     /\ pc = "done" /\ args.degradation_rate <= 0) =>
    out.kind = "return" /\ out.value = Infinity

\* The tags of the recognized technologies, whatever their case.
RecognizedTags ==
  {"bev", "BEV", "fcet", "Fcet", "hydrogen", "diesel", "Diesel"}
UnitOf(technology) ==
  IF technology \in {"bev", "BEV"} THEN "kWh"
  ELSE IF technology \in {"diesel", "Diesel"} THEN "liters"
  ELSE "kg_h2"

IsTech == fn = "calculate_technology_specific_energy"

C18_DrivetrainEfficiencyCounts ==
  (IsTech /\ pc = "done" /\ args.technology \in RecognizedTags
     /\ args.wheel_energy_joules > 0
     /\ args.drivetrains[1] # args.drivetrains[2]
     /\ loc[1].kind = "return" /\ loc[2].kind = "return")
    => loc[1].value[1] # loc[2].value[1]

\* An energy between 1e8 and 1e9 Joules rounded to five significant digits,
\* in units of 1e4 Joules.
FiveDigits(v) == (v + 5000) \div 10000

\* mass=18000, grade=0, distance=100000, velocity=22.2, the rest by default
IsDocWheel ==
  /\ fn = "calculate_wheel_energy"
  /\ args.mass = 18000 /\ args.grade = 0 /\ args.distance = 100000
  /\ args.velocity = Fine(222, 10) /\ args.air_density = << >>

\* C19 as stated: calculate_wheel_energy on the example returns
\* 3.4251e8 Joules to five significant digits.
C19_DocWheelEnergyAsStated ==
  (IsDocWheel /\ args.impl = "physics.energy" /\ pc # "call") =>
    out.kind = "return" /\ FiveDigits(out.value) = 34251

\* C19 amended: on the example calculate_wheel_energy returns 3.4744e8
\* Joules (347439600 J, default air density 1.225), the sum of a zero
\* gravity term, the rolling term and the drag term; 3.4251e8 Joules
\* (342511200 J) is what calculate_energy_consumption of models.py returns
\* (default air density 1.2).
C19_DocWheelEnergy ==
  (IsDocWheel /\ pc # "call") =>
    /\ out.kind = "return"
    /\ EGravity(args.mass, args.grade, args.distance) = Ok(0)
    /\ args.impl = "physics.energy" => out.value = 347439600
    /\ args.impl = "models" => out.value = 342511200

\* C19 witness: calculate_wheel_energy has returned on the example.
C19_Witness ==
  /\ IsDocWheel /\ args.impl = "physics.energy"
  /\ pc = "done" /\ out.kind = "return" /\ out.line = 88

\* 0.5 x energy x diesel factor + 0.5 x energy x grid intensity
HybridSplit(energy, grid_carbon_intensity) ==
  MulDiv(energy, DIESEL_CO2_PER_LITER + grid_carbon_intensity,
         2 * RateScale).v

\* C20: for a hybrid the CO2 emissions returned are the 50/50 split
\* 0.5 x energy x diesel factor + 0.5 x energy x grid intensity, in
\* calculate_co2_emissions (hybrid fuel types) and in
\* calculate_technology_trip_emissions ('hybrid').
C20_HybridSplitsHalfAndHalf ==
  /\ (fn = "calculate_co2_emissions" /\ pc = "done"
        /\ args.fuel_type \in HybridFuelTypes) =>
       /\ out.kind = "return"
       /\ out.value = HybridSplit(args.fuel_consumed,
                                  args.grid_carbon_intensity)
  /\ (fn = "calculate_technology_trip_emissions" /\ pc = "done"
        /\ Lower(args.technology) = "hybrid") =>
       /\ out.kind = "return"
       /\ out.value = HybridSplit(args.energy_consumed,
                                  args.grid_carbon_intensity)

\* E_baseline x (1 - sum of the adoption rates) + sum over the technologies
\* that have both an emission figure and an adoption rate of
\* E_tech x adoption_tech
TransitionBlend(a) ==
  LET adopted == DOMAIN a.adoption_rates
      both == DOMAIN a.technology_emissions \cap adopted
      total_adoption ==
        SumOver(adopted, [t \in adopted |-> Ok(a.adoption_rates[t])]).v
  IN MulDiv(a.baseline_emissions, RateScale - total_adoption, RateScale).v
     + SumOver(both,
               [t \in both |->
                  MulDiv(a.technology_emissions[t], a.adoption_rates[t],
                         RateScale)]).v

\* C21: calculate_transition_emissions and
\* calculate_longitudinal_transition_emissions both return
\* E_baseline x (1 - total_adoption) + sum of E_tech x adoption_tech, where
\* total_adoption is the sum of the adoption rates given.
C21_BothReturnTransitionBlend ==
  (fn \in {"calculate_transition_emissions",
           "calculate_longitudinal_transition_emissions"} /\ pc = "done") =>
    /\ out.kind = "return"
    /\ out.value = TransitionBlend(args)

IsOptimize == fn = "optimize_technology_mix"

\* capital + maintenance + degradation of the technology at index i
TotalCost(a, i) ==
  a.capital_costs[i] + a.maintenance_costs[i] + a.degradation_costs[i]

\* the technologies whose vehicle range is at least the range requirement
MeetsRange(a) ==
  {i \in 1..Len(a.technologies) :
     a.vehicle_ranges[i] >= a.range_requirements[i]}

\* the technologies that the returned mix gives a non-zero share to
Adopted(a, mix) == {i \in 1..Len(a.technologies) : mix[a.technologies[i]] # 0}

VehiclesNeeded(a, i) ==
  (a.total_demand + a.load_capacities[i] - 1) \div a.load_capacities[i]

\* the maximum adoption of the technology at index i, 1 when none is given
MaximumAdoption(a, i) ==
  IF a.max_adoption # << >> /\ i <= Len(a.max_adoption[1])
    THEN Min(RateScale, a.max_adoption[1][i])
    ELSE RateScale

\* the sum of the shares of a mix
ShareSum(mix) == SumOver(DOMAIN mix, [t \in DOMAIN mix |-> Ok(mix[t])]).v

\* C23: when the vehicles needed exceed the charging infrastructure, the
\* chosen technology has the share infrastructure / vehicles_needed capped
\* by its maximum adoption, diesel has the remaining share, every share is
\* within [0, 1] and the shares sum to 1.
C23_ShortInfrastructureSplitsWithDiesel ==
  (/\ IsOptimize /\ pc = "done" /\ out.kind = "return"
   /\ VehiclesNeeded(args, loc.optimal_idx) > args.charging_infrastructure) =>
    LET chosen == args.technologies[loc.optimal_idx]
        share ==
          Min(MaximumAdoption(args, loc.optimal_idx),
              MulDiv(args.charging_infrastructure, RateScale,
                     VehiclesNeeded(args, loc.optimal_idx)).v)
    IN /\ out.value[chosen] = share
       /\ "diesel" \in DOMAIN out.value
       /\ chosen # "diesel" => out.value["diesel"] = RateScale - share
       /\ \A t \in DOMAIN out.value :
            0 <= out.value[t] /\ out.value[t] <= RateScale
       /\ ShareSum(out.value) = RateScale

IsScenario == fn = "validate_scenario"

\* C24: constructing a VehicleSpecs with mass <= 0 or an efficiency outside
\* (0, 1], or a FinancialParams with a discount rate outside [0, 0.5],
\* fails with a ValidationError, so that no such record exists afterwards.
C24_ImpossibleRecordIsRejected ==
  /\ (/\ IsScenario /\ pc = "operational_profile"
      /\ \/ args.vehicle.mass_kg <= 0
         \/ args.vehicle.energy_efficiency <= 0
         \/ args.vehicle.energy_efficiency > Amount(1, 1)) =>
       /\ out.kind = "raise"
       /\ "vehicle_specs" \notin DOMAIN loc
  /\ (/\ IsScenario /\ pc = "validate"
      /\ \/ args.financial.discount_rate < 0
         \/ args.financial.discount_rate > Amount(5, 10)) =>
       /\ out.kind = "raise"
       /\ "financial_params" \notin DOMAIN loc

\* the constraints of a scenario in the order vehicle, operational,
\* financial, each with the name its message carries and whether the
\* scenario violates it
Constraints(v, p, f) ==
  <<<<"Vehicle mass", v.mass_kg <= 0>>,
    <<"Frontal area", v.frontal_area_m2 <= 0>>,
    <<"Drag coefficient",
      v.drag_coefficient < Amount(1, 10) \/ v.drag_coefficient > Amount(2, 1)>>,
    <<"Rolling resistance",
      v.rolling_resistance < Amount(1, 1000)
        \/ v.rolling_resistance > Amount(5, 100)>>,
    <<"Maximum range", v.max_range_km <= 0>>,
    <<"Energy efficiency",
      v.energy_efficiency < 0 \/ v.energy_efficiency > Amount(1, 1)>>,
    <<"Initial cost", v.initial_cost <= 0>>,
    <<"Battery degradation rate",
      /\ v.battery_degradation_rate # << >>
      /\ \/ v.battery_degradation_rate[1] < 0
         \/ v.battery_degradation_rate[1] > Amount(1, 1)>>,
    <<"Annual kilometers", p.annual_km <= 0>>,
    <<"Operating days", p.operating_days_per_year <= 0>>,
    <<"Operating days per year",
      p.operating_days_per_year < 1 \/ p.operating_days_per_year > 365>>,
    <<"Daily kilometers", p.daily_km <= 0>>,
    <<"Average velocity", p.average_velocity_kmh <= 0>>,
    <<"Utilization rate",
      p.utilization_rate < 0 \/ p.utilization_rate > Amount(1, 1)>>,
    <<"Load factor", p.load_factor < 0 \/ p.load_factor > Amount(1, 1)>>,
    <<"Annual km",
      5 * Abs(p.annual_km - p.daily_km * p.operating_days_per_year)
        > p.daily_km * p.operating_days_per_year>>,
    <<"Discount rate",
      f.discount_rate < 0 \/ f.discount_rate > Amount(5, 10)>>,
    <<"Analysis period", f.analysis_period_years <= 0>>,
    <<"Analysis period years",
      f.analysis_period_years < 1 \/ f.analysis_period_years > 30>>,
    <<"Fuel price escalation",
      f.fuel_price_escalation < Amount(-1, 10)
        \/ f.fuel_price_escalation > Amount(3, 10)>>,
    <<"Electricity price escalation",
      f.electricity_price_escalation < Amount(-1, 10)
        \/ f.electricity_price_escalation > Amount(3, 10)>>,
    <<"H2 price escalation",
      f.h2_price_escalation < Amount(-1, 10)
        \/ f.h2_price_escalation > Amount(3, 10)>>,
    <<"Maintenance cost escalation",
      f.maintenance_cost_escalation < Amount(-1, 10)
        \/ f.maintenance_cost_escalation > Amount(3, 10)>>,
    <<"Fuel price", f.fuel_price_per_unit <= 0>>,
    <<"Electricity price", f.electricity_price_per_kwh <= 0>>,
    <<"Hydrogen price", f.h2_price_per_kg <= 0>>>>

Violated(check) == check[2]

\* the names of the violated constraints, in order
ViolatedNames(v, p, f) ==
  LET violated == SelectSeq(Constraints(v, p, f), Violated)
  IN [i \in 1..Len(violated) |-> violated[i][1]]

\* C25: validate_scenario raises nothing and returns (is_valid, errors),
\* where errors holds one message for every violated constraint, those of
\* the vehicle first, then the operational ones, then the financial ones,
\* and is_valid is true exactly when errors is empty.
C25_EveryViolationIsCollected ==
  (IsScenario /\ pc = "done") =>
    /\ out.kind = "return"
    /\ LET is_valid == out.value[1]
           errors == out.value[2]
       IN /\ [i \in 1..Len(errors) |-> errors[i].name]
               = ViolatedNames(args.vehicle, args.profile, args.financial)
          /\ is_valid = (errors = << >>)

\* a scenario was validated that violates two vehicle constraints, an
\* operational one and a financial one
C25_Witness ==
  /\ IsScenario /\ pc = "done" /\ out.kind = "return"
  /\ args.vehicle.mass_kg <= 0
  /\ args.vehicle.energy_efficiency > Amount(1, 1)
  /\ args.profile.utilization_rate > Amount(1, 1)
  /\ args.financial.discount_rate > Amount(5, 10)
  /\ Len(out.value[2]) >= 4
  /\ out.value[1] = FALSE

\* C26: a scenario reported valid has mass > 0, efficiency in (0, 1],
\* degradation rate (if present) in [0, 1], utilization and load factor in
\* [0, 1], annual_km within 20% of daily_km x operating_days, discount rate
\* in [0, 0.5] and horizon in [1, 30].
C26_ValidScenarioMeetsInvariants ==
  (IsScenario /\ pc = "done" /\ out.kind = "return" /\ out.value[1]) =>
    LET v == args.vehicle
        p == args.profile
        f == args.financial
    IN /\ v.mass_kg > 0
       /\ v.energy_efficiency > 0 /\ v.energy_efficiency <= Amount(1, 1)
       /\ v.battery_degradation_rate # << >> =>
            /\ v.battery_degradation_rate[1] >= 0
            /\ v.battery_degradation_rate[1] <= Amount(1, 1)
       /\ p.utilization_rate >= 0 /\ p.utilization_rate <= Amount(1, 1)
       /\ p.load_factor >= 0 /\ p.load_factor <= Amount(1, 1)
       /\ 5 * Abs(p.annual_km - p.daily_km * p.operating_days_per_year)
            <= p.daily_km * p.operating_days_per_year
       /\ f.discount_rate >= 0 /\ f.discount_rate <= Amount(5, 10)
       /\ f.analysis_period_years >= 1 /\ f.analysis_period_years <= 30

\* C27: validate_queensland_trials() reports every check as passed: the
\* degradation check (between 13% and 17%), the effective range check and
\* the battery energy check (between 50 and 300 kWh).
C27_EveryCalibrationCheckPasses ==
  (fn = "validate_queensland_trials" /\ pc = "done") =>
    /\ out.kind = "return"
    /\ out.value.degradation_15_percent
    /\ out.value.range_100_200_km
    /\ out.value.energy_reasonable

\* C28: calculate_payback_period ends by returning a value, a number of
\* years or infinity, and never by raising, for every initial investment
\* (zero and negative included) and every cashflow list (zeros included).
C28_PaybackNeverRaises ==
  (IsPayback /\ pc = "done") =>
    /\ out.kind = "return"
    /\ out.line \in {119, 121}

\* C29: for every member of FuelType, calculate_co2_emissions,
\* calculate_nox_emissions and calculate_pm_emissions return a number and
\* raise nothing, and the members with no emission model (neither DIESEL,
\* ELECTRIC nor HYDROGEN) yield 0.0 from the final branch.
C29_EveryFuelTypeReturnsANumber ==
  (/\ fn \in {"calculate_co2_emissions", "calculate_nox_emissions",
              "calculate_pm_emissions"}
   /\ pc = "done" /\ args.fuel_type \in FuelTypeMembers) =>
    /\ out.kind = "return"
    /\ args.fuel_type \notin {"DIESEL", "ELECTRIC", "HYDROGEN"} =>
         out.value = 0 /\ out.line \in {73, 108, 140}

\* the parameters that uncertainty_params declares as 'normal' or 'uniform'
Sampled(uncertainty_params) ==
  {uncertainty_params[k][1] : k \in
     {i \in 1..Len(uncertainty_params) :
        uncertainty_params[i][2].type \in {"normal", "uniform"}}}

\* a returned parameter set has the keys of base_params and differs from it
\* only in sampled parameters
FramedBy(a, sim_params) ==
  /\ DOMAIN sim_params = DOMAIN a.base_params
  /\ \A key \in DOMAIN sim_params :
       sim_params[key] # a.base_params[key] =>
         key \in Sampled(a.uncertainty_params)

\* C30: monte_carlo_simulation leaves base_params as it was given and ends
\* by returning exactly n_simulations parameter sets, each with the keys of
\* base_params and each differing from base_params only in parameters that
\* uncertainty_params declares as 'normal' or 'uniform'.
C30_ReturnsAllSetsWithinFrame ==
  /\ [](fn = "monte_carlo_simulation" /\ pc = "done" =>
          /\ out.kind = "return"
          /\ Len(out.value) = args.n_simulations
          /\ \A i \in 1..Len(out.value) : FramedBy(args, out.value[i]))
  /\ [][fn = "monte_carlo_simulation" => args' = args]_vars

====
